---- MODULE Spec2Model ----
(***************************************************************************)
(* A model of the embroidery digitizing pipeline of embroidery-palette:    *)
(* the stitch planner (lib/stitch_planner.py), the stitch generator        *)
(* (lib/stitch_generator.py) and the hoop handling of the preprocessor     *)
(* (lib/image_preprocess.py).                                              *)
(*                                                                         *)
(* Numbers.  The code computes in floating point.  The model computes in   *)
(* exact fixed point: densities, multipliers and stitch lengths are kept   *)
(* in thousandths (5.0 stitches/mm is 5000, the multiplier 0.8 is 800,     *)
(* 2.0 mm is 2000), areas and perimeters in whole mm2 / mm, pixel          *)
(* coordinates in whole pixels.  Python's int() truncates toward zero;     *)
(* Trunc models it.                                                        *)
(***************************************************************************)
EXTENDS Integers, Sequences, FiniteSets, TLC

VARIABLES
    pc,                  \* position of the run: which call has returned
    outcome,             \* how the last call ended: "none", "returned" or an exception name
    regions,             \* plan_stitches argument: the region list
    quality_preset,      \* plan_stitches argument: the preset identifier
    density_multiplier,  \* plan_stitches argument, in thousandths
    plan,                \* the StitchPlan object
    validate_out,        \* the list validate_plan returned
    hoop_size,           \* preprocess_for_embroidery argument: the hoop identifier
    image,               \* preprocess_for_embroidery argument: the image, with the
                         \* bounding rectangle of the mask its segmentation yields
    pre,                 \* the PreprocessResult
    center_offset,       \* generate_stitches argument: the offset in pixels
    op_stitches,         \* generate_stitches: per layer, per operation, the list
                         \* generate_operation_stitches returned
    pattern,             \* the records of the EmbPattern
    has_opencv,          \* HAS_OPENCV: whether the import of cv2 succeeded
    use_grabcut,         \* preprocess_for_embroidery argument
    seg,                 \* preprocess_for_embroidery: its locals after the crop
                         \* (method, fg_image, mask, cropped_image, cropped_mask)
    cls_args,            \* classify_region arguments
    cls_out,             \* what classify_region returned
    contour_in,          \* create_region_from_contour argument: the contour
    region_out,          \* the Region create_region_from_contour returned
    quantized,           \* extract_regions arguments: the quantized image, as the
                         \* palette's color layers
    min_area_mm2,        \* extract_regions argument
    extracted,           \* the list extract_regions returned
    call_args,           \* the arguments of a call of one of the generator's or
                         \* analyzer's functions made on its own
    call_out,            \* what that call returned
    scan                 \* generate_fill_stitches: its locals (center, rotated, y,
                         \* max_y, line_spacing_px, direction, stitches_rotated)

vars == <<pc, outcome, regions, quality_preset, density_multiplier, plan, validate_out,
          hoop_size, image, pre, center_offset, op_stitches, pattern,
          has_opencv, use_grabcut, seg, cls_args, cls_out, contour_in, region_out,
          quantized, min_area_mm2, extracted, call_args, call_out, scan>>

\* the variables of the preprocessor
preVars == <<hoop_size, image, pre, has_opencv, use_grabcut, seg>>

\* the variables of the generator
genVars == <<center_offset, op_stitches, pattern>>

\* the variables of the shape analyzer
shapeVars == <<cls_args, cls_out, contour_in, region_out, quantized, min_area_mm2,
               extracted>>

\* the variables of a function called on its own
callVars == <<call_args, call_out, scan>>

----------------------------------------------------------------------------
(* Bounds of the model *)

\* longest region list given to plan_stitches
MaxRegions == 3
\* most layers a plan assembled through StitchPlan.add_layer gets
MaxLayers == 11

----------------------------------------------------------------------------
(* Arithmetic helpers *)

\* Python int(n / d) for d > 0: truncation toward zero
Trunc(n, d) == IF n >= 0 THEN n \div d ELSE -((-n) \div d)

Min(a, b) == IF a <= b THEN a ELSE b
Max(a, b) == IF a >= b THEN a ELSE b

RECURSIVE SumSeq(_)
SumSeq(s) == IF s = <<>> THEN 0 ELSE Head(s) + SumSeq(Tail(s))

\* the sequence of f-values of s, as Python's [x.f for x in s]
EstimatesOf(s) == [i \in 1..Len(s) |-> s[i].estimated_stitches]

----------------------------------------------------------------------------
(* stitch_planner.py: constants *)

PP1_DEFAULTS ==
    [ fill_density                  |-> 5000,   \* 5.0 stitches per mm
      outline_density               |-> 500,    \* 0.5
      bean_stitch_repeat            |-> 3,
      stitch_length_target          |-> 2000,   \* 2.0 mm
      stitch_length_min             |-> 1000,
      stitch_length_max             |-> 3500,
      underlay_threshold_mm2        |-> 50,
      underlay_density_ratio        |-> 500,    \* 0.5
      underlay_angle_offset         |-> 90,
      max_recommended_stitches      |-> 15000,
      max_stitches_hard_limit       |-> 20000,
      sewing_speed_stitches_per_min |-> 400 ]

\* the values of the QualityPreset enum
QualityPreset == {"fast", "balanced", "quality"}

QUALITY_MULTIPLIERS ==
    [ fast     |-> [density |-> 800,  underlay |-> FALSE],
      balanced |-> [density |-> 1000, underlay |-> TRUE],
      quality  |-> [density |-> 1200, underlay |-> TRUE] ]

----------------------------------------------------------------------------
(* stitch_planner.py: operations of a region *)

\* region.contours[0].tolist() if region.contours else []
FirstContour(region) ==
    IF region.contours = <<>> THEN <<>> ELSE region.contours[1]

\* int(sqrt(a) * density * (sqrt(a) / stitch_length_target)); density in thousandths.
\* The exact value a * density / 2 is truncated; the areas of RegionPool are ones
\* for which the floating-point evaluation gives the same integer.
estimate_fill_stitches(area_mm2, density) ==
    Trunc(area_mm2 * density, PP1_DEFAULTS.stitch_length_target)

create_fill_operation(region, density) ==
    [ stitch_type        |-> "fill",
      region             |-> region,
      contour            |-> FirstContour(region),
      angle              |-> region.principal_angle,
      density            |-> density,
      stitch_length      |-> PP1_DEFAULTS.stitch_length_target,
      estimated_stitches |-> estimate_fill_stitches(region.area_mm2, density),
      is_underlay        |-> FALSE ]

\* int((perimeter_mm / stitch_length) * bean_stitch_repeat)
create_outline_operation(region) ==
    [ stitch_type        |-> "outline",
      region             |-> region,
      contour            |-> FirstContour(region),
      angle              |-> 0,
      density            |-> PP1_DEFAULTS.outline_density,
      stitch_length      |-> PP1_DEFAULTS.stitch_length_target,
      estimated_stitches |->
          Trunc(region.perimeter_mm * 1000 * PP1_DEFAULTS.bean_stitch_repeat,
                PP1_DEFAULTS.stitch_length_target),
      is_underlay        |-> FALSE ]

create_underlay_operation(region, base_density) ==
    LET underlay_density ==
            Trunc(base_density * PP1_DEFAULTS.underlay_density_ratio, 1000)
    IN  [ stitch_type        |-> "underlay",
          region             |-> region,
          contour            |-> FirstContour(region),
          angle              |-> (region.principal_angle
                                    + PP1_DEFAULTS.underlay_angle_offset) % 180,
          density            |-> underlay_density,
          stitch_length      |-> PP1_DEFAULTS.stitch_length_max,
          estimated_stitches |-> estimate_fill_stitches(region.area_mm2, underlay_density),
          is_underlay        |-> TRUE ]

\* plan_region_operations with the underlay test written >= instead of >
plan_region_operations_ge(region, dm, use_underlay) ==
    LET base_fill_density == Trunc(PP1_DEFAULTS.fill_density * dm, 1000)
    IN  IF region.region_type = "fill"
        THEN (IF use_underlay /\ region.area_mm2 >= PP1_DEFAULTS.underlay_threshold_mm2
              THEN <<create_underlay_operation(region, base_fill_density)>>
              ELSE <<>>)
             \o <<create_fill_operation(region, base_fill_density),
                  create_outline_operation(region)>>
        ELSE IF region.region_type = "outline"
        THEN <<create_outline_operation(region)>>
        ELSE IF region.region_type = "detail"
        THEN <<create_fill_operation(region, Trunc(base_fill_density * 800, 1000)),
               create_outline_operation(region)>>
        ELSE <<>>

\* density_multiplier in thousandths; the list of operations of one region
plan_region_operations(region, dm, use_underlay) ==
    LET base_fill_density == Trunc(PP1_DEFAULTS.fill_density * dm, 1000)
    IN  IF region.region_type = "fill"
        THEN (IF use_underlay /\ region.area_mm2 > PP1_DEFAULTS.underlay_threshold_mm2
              THEN <<create_underlay_operation(region, base_fill_density)>>
              ELSE <<>>)
             \o <<create_fill_operation(region, base_fill_density),
                  create_outline_operation(region)>>
        ELSE IF region.region_type = "outline"
        THEN <<create_outline_operation(region)>>
        ELSE IF region.region_type = "detail"
        THEN <<create_fill_operation(region, Trunc(base_fill_density * 800, 1000)),
               create_outline_operation(region)>>
        ELSE <<>>

----------------------------------------------------------------------------
(* stitch_planner.py: StitchLayer and StitchPlan *)

\* StitchLayer(color_hex=...) as constructed: no operations, estimate 0
NewLayer(color_hex) ==
    [color_hex |-> color_hex, operations |-> <<>>, estimated_stitches |-> 0]

\* add_operation that appends the operation and leaves the count alone
add_operation_nocount(layer, op) ==
    [layer EXCEPT !.operations = Append(@, op)]

\* StitchLayer.add_operation
add_operation(layer, op) ==
    [layer EXCEPT !.operations = Append(@, op),
                  !.estimated_stitches = @ + op.estimated_stitches]

RECURSIVE add_operations(_, _)
\* for op in operations: layer.add_operation(op)
add_operations(layer, ops) ==
    IF ops = <<>> THEN layer
    ELSE add_operations(add_operation(layer, Head(ops)), Tail(ops))

\* StitchPlan(quality_preset=..., hoop_size=...) as constructed
NewPlan ==
    [layers |-> <<>>, total_stitches |-> 0, estimated_time |-> 0, warnings |-> <<>>]

\* StitchPlan.add_layer
add_layer(p, layer) ==
    [p EXCEPT !.layers = Append(@, layer),
              !.total_stitches = @ + layer.estimated_stitches]

\* the warning choice with both limits compared by >=
StitchWarning_ge(total) ==
    IF total >= PP1_DEFAULTS.max_stitches_hard_limit THEN <<"hard">>
    ELSE IF total >= PP1_DEFAULTS.max_recommended_stitches THEN <<"soft">>
    ELSE <<>>

\* the stitch-count warning _validate and validate_plan choose
StitchWarning(total) ==
    IF total > PP1_DEFAULTS.max_stitches_hard_limit THEN <<"hard">>
    ELSE IF total > PP1_DEFAULTS.max_recommended_stitches THEN <<"soft">>
    ELSE <<>>

\* StitchPlan._validate: appends to the plan's warnings
PlanValidate(p) ==
    [p EXCEPT !.warnings =
        @ \o StitchWarning(p.total_stitches)
          \o (IF Len(p.layers) > 10 THEN <<"colors">> ELSE <<>>)]

\* StitchPlan.finalize; estimated_time = total / 400 minutes, kept in 1/10000 minute
finalize(p) ==
    LET total == SumSeq(EstimatesOf(p.layers))
    IN  PlanValidate([p EXCEPT
            !.total_stitches = total,
            !.estimated_time =
                total * (10000 \div PP1_DEFAULTS.sewing_speed_stitches_per_min)])

\* validate_plan(plan): a fresh list of warnings
validate_plan(p) ==
    StitchWarning(p.total_stitches)
      \o (IF Len(p.layers) > 15 THEN <<"colors">> ELSE <<>>)

----------------------------------------------------------------------------
(* stitch_planner.py: plan_stitches *)

\* a preset parser whose fallback is FAST
ParsePreset_fast(s) == IF s \in QualityPreset THEN s ELSE "fast"

\* QualityPreset(quality_preset), ValueError caught: BALANCED
ParsePreset(s) == IF s \in QualityPreset THEN s ELSE "balanced"

RECURSIVE ColorOrder_last(_, _)
\* a grouping that orders the colors by their last occurrence
ColorOrder_last(rs, seen) ==
    IF rs = <<>> THEN <<>>
    ELSE IF \E i \in 2..Len(rs) : rs[i].color_hex = Head(rs).color_hex
         THEN ColorOrder_last(Tail(rs), seen)
         ELSE <<Head(rs).color_hex>> \o ColorOrder_last(Tail(rs), seen)

RECURSIVE ColorOrder(_, _)
\* the keys of by_color in insertion order: each color_hex at its first occurrence
ColorOrder(rs, seen) ==
    IF rs = <<>> THEN <<>>
    ELSE IF Head(rs).color_hex \in seen THEN ColorOrder(Tail(rs), seen)
    ELSE <<Head(rs).color_hex>> \o ColorOrder(Tail(rs), seen \cup {Head(rs).color_hex})

\* by_color[color_hex]: the regions of one color, in input order
RegionsOfColor(rs, c) == SelectSeq(rs, LAMBDA r : r.color_hex = c)

RECURSIVE LayerOps(_, _, _)
\* the operations of all regions of one color, region after region
LayerOps(rs, dm, use_underlay) ==
    IF rs = <<>> THEN <<>>
    ELSE plan_region_operations(Head(rs), dm, use_underlay)
           \o LayerOps(Tail(rs), dm, use_underlay)

RECURSIVE AddColorLayers(_, _, _, _, _)
\* the loop over by_color.items(): a layer is added only if it has operations
AddColorLayers(p, colors, rs, dm, use_underlay) ==
    IF colors = <<>> THEN p
    ELSE LET layer == add_operations(NewLayer(Head(colors)),
                          LayerOps(RegionsOfColor(rs, Head(colors)), dm, use_underlay))
             p2 == IF layer.operations # <<>> THEN add_layer(p, layer) ELSE p
         IN  AddColorLayers(p2, Tail(colors), rs, dm, use_underlay)

\* plan_stitches(regions, quality_preset=preset, density_multiplier=dmult)
plan_stitches(rs, preset_id, dmult) ==
    LET preset_config == QUALITY_MULTIPLIERS[ParsePreset(preset_id)]
        effective_density == Trunc(preset_config.density * dmult, 1000)
    IN  finalize(AddColorLayers(NewPlan, ColorOrder(rs, {}), rs,
                                effective_density, preset_config.underlay))

----------------------------------------------------------------------------
(* Exact rational numbers <<numerator, denominator>>, denominator > 0, in   *)
(* lowest terms.  The generator's pixel coordinates are floats in the code  *)
(* and rationals here.                                                       *)

Abs(x) == IF x < 0 THEN -x ELSE x

RECURSIVE GCD(_, _)
GCD(a, b) == IF b = 0 THEN a ELSE CHOOSE g \in {GCD(b, m) : m \in {a % b}} : TRUE

\* n / d in lowest terms, g their greatest common divisor
Lowest(n, d, g) == <<(IF d < 0 THEN -n ELSE n) \div g, Abs(d) \div g>>

\* Each operand of the operators below is bound to its value before it is
\* used, so that it is evaluated once however often it occurs.
Rat(n, d) ==
    CHOOSE r \in UNION {{Lowest(nn, dd, g) : g \in {GCD(Abs(nn), Abs(dd))}} :
                           nn \in {n}, dd \in {d}} : TRUE

RInt(k) == <<k, 1>>
RAdd(a, b) == CHOOSE r \in {Rat(x[1] * y[2] + y[1] * x[2], x[2] * y[2]) : x \in {a}, y \in {b}} : TRUE
RSub(a, b) == CHOOSE r \in {Rat(x[1] * y[2] - y[1] * x[2], x[2] * y[2]) : x \in {a}, y \in {b}} : TRUE
RMul(a, b) == CHOOSE r \in {Rat(x[1] * y[1], x[2] * y[2]) : x \in {a}, y \in {b}} : TRUE
RDiv(a, b) == CHOOSE r \in {Rat(x[1] * y[2], x[2] * y[1]) : x \in {a}, y \in {b}} : TRUE
RLt(a, b) == \E x \in {a}, y \in {b} : x[1] * y[2] < y[1] * x[2]
RLe(a, b) == \E x \in {a}, y \in {b} : x[1] * y[2] <= y[1] * x[2]
RAbs(a) == CHOOSE r \in {<<Abs(x[1]), x[2]>> : x \in {a}} : TRUE
RMin(a, b) == CHOOSE r \in {IF RLe(x, y) THEN x ELSE y : x \in {a}, y \in {b}} : TRUE
RMax(a, b) == CHOOSE r \in {IF RLe(x, y) THEN y ELSE x : x \in {a}, y \in {b}} : TRUE
\* int(a): truncation toward zero
RTrunc(a) == Trunc(a[1], a[2])

\* np.array(contour).astype(np.float64): integer pixel points as rational points
ToPoints(contour) ==
    [i \in 1..Len(contour) |-> <<RInt(contour[i][1]), RInt(contour[i][2])>>]

----------------------------------------------------------------------------
(* stitch_generator.py *)

\* embroidery units per mm
UNITS_PER_MM == 10

\* cos and sin of an angle given in degrees, for the multiples of 90 degrees:
\* the only angles of the model (the regions of GenRegionPool have principal
\* angle 0, so fills run at 0 and underlays at 90 degrees)
CosDeg(a) == LET r == a % 360 IN IF r = 0 THEN 1 ELSE IF r = 180 THEN -1 ELSE 0
SinDeg(a) == LET r == a % 360 IN IF r = 90 THEN 1 ELSE IF r = 270 THEN -1 ELSE 0

\* rotate_points(points, center, radians(angle))
rotate_points(points, center, angle) ==
    LET cos_a == RInt(CosDeg(angle))
        sin_a == RInt(SinDeg(angle))
    IN  [i \in 1..Len(points) |->
            LET cx == RSub(points[i][1], center[1])
                cy == RSub(points[i][2], center[2])
            IN  << RAdd(RSub(RMul(cx, cos_a), RMul(cy, sin_a)), center[1]),
                   RAdd(RAdd(RMul(cx, sin_a), RMul(cy, cos_a)), center[2]) >>]

RECURSIVE RSum(_)
RSum(s) == IF s = <<>> THEN RInt(0) ELSE RAdd(Head(s), RSum(Tail(s)))

\* np.mean(points, axis=0)
MeanPoint(points) ==
    << RDiv(RSum([i \in 1..Len(points) |-> points[i][1]]), RInt(Len(points))),
       RDiv(RSum([i \in 1..Len(points) |-> points[i][2]]), RInt(Len(points))) >>

RECURSIVE RMinSeq(_)
RMinSeq(s) == IF Len(s) = 1 THEN s[1] ELSE RMin(Head(s), RMinSeq(Tail(s)))

RECURSIVE RMaxSeq(_)
RMaxSeq(s) == IF Len(s) = 1 THEN s[1] ELSE RMax(Head(s), RMaxSeq(Tail(s)))

RECURSIVE Intersections(_, _, _)
\* the loop of find_scanline_intersections from edge i on
Intersections(contour, y, i) ==
    IF i > Len(contour) THEN <<>>
    ELSE LET p1 == contour[i]
             p2 == contour[(i % Len(contour)) + 1]
             crosses == \/ (RLe(p1[2], y) /\ RLt(y, p2[2]))
                        \/ (RLe(p2[2], y) /\ RLt(y, p1[2]))
         IN  (IF crosses /\ p2[2] # p1[2]
              THEN LET t == RDiv(RSub(y, p1[2]), RSub(p2[2], p1[2]))
                   IN  <<RAdd(p1[1], RMul(t, RSub(p2[1], p1[1])))>>
              ELSE <<>>)
             \o Intersections(contour, y, i + 1)

\* find_scanline_intersections(contour, y)
find_scanline_intersections(contour, y) == Intersections(contour, y, 1)

RECURSIVE RInsert(_, _)
RInsert(x, s) ==
    IF s = <<>> THEN <<x>>
    ELSE IF RLe(x, Head(s)) THEN <<x>> \o s
    ELSE <<Head(s)>> \o RInsert(x, Tail(s))

RECURSIVE RSort(_)
\* list.sort() of numbers
RSort(s) == IF s = <<>> THEN <<>> ELSE RInsert(Head(s), RSort(Tail(s)))

\* generate_line_stitches for the horizontal spans the fill gives it
\* (y1 = y2, so the length sqrt(dx*dx + dy*dy) is |dx|)
generate_line_stitches(x1, y1, x2, y2, stitch_length_px, direction) ==
    LET dx == RSub(x2, x1)
        dy == RSub(y2, y1)
        length == RAbs(dx)
        num_stitches == Max(2, RTrunc(RDiv(length, stitch_length_px)) + 1)
    IN  IF RLt(length, RDiv(stitch_length_px, RInt(2)))
        THEN << <<x1, y1>>, <<x2, y2>> >>
        ELSE [k \in 1..num_stitches |->
                LET t0 == Rat(k - 1, num_stitches - 1)
                    t  == IF direction < 0 THEN RSub(RInt(1), t0) ELSE t0
                IN  <<RAdd(x1, RMul(t, dx)), RAdd(y1, RMul(t, dy))>>]

RECURSIVE SpanStitches(_, _, _, _, _)
\* the loop over the enter/exit pairs of one scanline: i = 0, 2, 4, ...
SpanStitches(xs, i, y, stitch_length_px, direction) ==
    IF i >= Len(xs) - 1 THEN <<>>
    ELSE generate_line_stitches(xs[i + 1], y, xs[i + 2], y, stitch_length_px, direction)
           \o SpanStitches(xs, i + 2, y, stitch_length_px, direction)

RECURSIVE ScanLines(_, _, _, _, _, _)
\* the loop "while y <= max_y" of generate_fill_stitches: the stitches of
\* the scanlines from y on, in the rotated frame
ScanLines(rotated, y, max_y, line_spacing_px, stitch_length_px, direction) ==
    IF ~RLe(y, max_y) THEN <<>>
    ELSE LET xs == find_scanline_intersections(rotated, y)
         IN  (IF Len(xs) >= 2
              THEN SpanStitches(RSort(xs), 0, y, stitch_length_px, direction)
              ELSE <<>>)
             \o ScanLines(rotated, RAdd(y, line_spacing_px), max_y,
                          line_spacing_px, stitch_length_px, -direction)

\* int((x - center_offset) * UNITS_PER_MM / pixels_per_mm) for both coordinates
ToUnits(pt, pixels_per_mm, offset) ==
    << RTrunc(RDiv(RMul(RSub(pt[1], RInt(offset[1])), RInt(UNITS_PER_MM)),
                   RInt(pixels_per_mm))),
       RTrunc(RDiv(RMul(RSub(pt[2], RInt(offset[2])), RInt(UNITS_PER_MM)),
                   RInt(pixels_per_mm))) >>

\* generate_fill_stitches; density and stitch_length in thousandths, density > 0.
\* The stitches are computed exactly; with an angle of 90 degrees, or a
\* scanline spacing that is no binary fraction, the floating-point evaluation
\* can land a hair below an integer that the exact value reaches, and int()
\* then gives a coordinate one unit lower.  Number and order of the stitches
\* are the same.
generate_fill_stitches(contour, angle, density, stitch_length, pixels_per_mm, offset) ==
    IF contour = <<>> \/ Len(contour) < 3 THEN <<>>
    ELSE LET points == ToPoints(contour)
             line_spacing_px == Rat(pixels_per_mm * 1000, density)
             center == MeanPoint(points)
             rotated == rotate_points(points, center, -angle)
             ys == [i \in 1..Len(rotated) |-> rotated[i][2]]
             min_y == RMinSeq(ys)
             max_y == RMaxSeq(ys)
             stitches_rotated ==
                 ScanLines(rotated, RAdd(min_y, RDiv(line_spacing_px, RInt(2))),
                           max_y, line_spacing_px,
                           Rat(stitch_length * pixels_per_mm, 1000), 1)
             stitches_original == rotate_points(stitches_rotated, center, angle)
         IN  [i \in 1..Len(stitches_original) |->
                 ToUnits(stitches_original[i], pixels_per_mm, offset)]

\* a scanline spacing twice as wide: 2 / density mm
LineSpacingPx_double(pixels_per_mm, density) == Rat(pixels_per_mm * 2000, density)

\* line_spacing_px = pixels_per_mm / density; density in thousandths, not 0
LineSpacingPx(pixels_per_mm, density) == Rat(pixels_per_mm * 1000, density)

RECURSIVE ScanRows(_, _, _, _, _, _)
\* the loop "while y <= max_y" of generate_fill_stitches, one record for each
\* pass: its y, its direction, the sorted intersections and the stitches
\* added to stitches_rotated
ScanRows(rotated, y, max_y, line_spacing_px, stitch_length_px, direction) ==
    IF ~RLe(y, max_y) THEN <<>>
    ELSE LET xs == find_scanline_intersections(rotated, y)
         IN  << [ y             |-> y,
                  direction     |-> direction,
                  intersections |-> IF Len(xs) >= 2 THEN RSort(xs) ELSE xs,
                  stitches      |->
                      IF Len(xs) >= 2
                      THEN SpanStitches(RSort(xs), 0, y, stitch_length_px, direction)
                      ELSE <<>> ] >>
             \o ScanRows(rotated, RAdd(y, line_spacing_px), max_y,
                         line_spacing_px, stitch_length_px, -direction)

\* the passes of the scan loop of generate_fill_stitches for a contour of at
\* least 3 points and a positive density
FillRows(contour, angle, density, stitch_length, pixels_per_mm) ==
    LET points == ToPoints(contour)
        line_spacing_px == LineSpacingPx(pixels_per_mm, density)
        center == MeanPoint(points)
        rotated == rotate_points(points, center, -angle)
        ys == [i \in 1..Len(rotated) |-> rotated[i][2]]
    IN  ScanRows(rotated, RAdd(RMinSeq(ys), RDiv(line_spacing_px, RInt(2))),
                 RMaxSeq(ys), line_spacing_px,
                 Rat(stitch_length * pixels_per_mm, 1000), 1)

\* np.linalg.norm(p2 - p1) for the axis-parallel segments of the contours of
\* the model
SegLen(p1, p2) == RAdd(RAbs(RSub(p2[1], p1[1])), RAbs(RSub(p2[2], p1[2])))

RECURSIVE Perimeter(_, _)
\* the perimeter loop of subdivide_contour, closing edge included
Perimeter(points, i) ==
    IF i > Len(points) THEN RInt(0)
    ELSE RAdd(SegLen(points[i], points[(i % Len(points)) + 1]),
              Perimeter(points, i + 1))

RECURSIVE ResampleSegment(_, _, _, _, _, _, _)
\* the inner while loop of subdivide_contour on segment p1-p2; returns
\* [result, next_target]
ResampleSegment(result, next_target, accumulated, p1, p2, target_spacing, num_points) ==
    LET segment_length == SegLen(p1, p2)
    IN  IF RLt(next_target, RAdd(accumulated, segment_length))
           /\ Len(result) < num_points
        THEN LET t0 == IF RLt(RInt(0), segment_length)
                       THEN RDiv(RSub(next_target, accumulated), segment_length)
                       ELSE RInt(0)
                 t  == RMax(RInt(0), RMin(RInt(1), t0))
                 new_point == << RAdd(p1[1], RMul(t, RSub(p2[1], p1[1]))),
                                 RAdd(p1[2], RMul(t, RSub(p2[2], p1[2]))) >>
             IN  ResampleSegment(Append(result, new_point),
                                 RAdd(next_target, target_spacing),
                                 accumulated, p1, p2, target_spacing, num_points)
        ELSE [result |-> result, next_target |-> next_target]

RECURSIVE ResampleFrom(_, _, _, _, _, _, _)
\* the outer while loop of subdivide_contour from point_idx (0-based) on
ResampleFrom(points, point_idx, result, next_target, accumulated, target_spacing, num_points) ==
    IF point_idx < Len(points) - 1 /\ Len(result) < num_points
    THEN LET p1 == points[point_idx + 1]
             p2 == points[point_idx + 2]
             r  == ResampleSegment(result, next_target, accumulated, p1, p2,
                                   target_spacing, num_points)
         IN  ResampleFrom(points, point_idx + 1, r.result, r.next_target,
                          RAdd(accumulated, SegLen(p1, p2)),
                          target_spacing, num_points)
    ELSE result

\* subdivide_contour(points, target_length)
subdivide_contour(points, target_length) ==
    IF Len(points) < 2 THEN points
    ELSE LET perimeter == Perimeter(points, 1)
             num_points == Max(3, RTrunc(RDiv(perimeter, target_length)))
             target_spacing == RDiv(perimeter, RInt(num_points))
             result == ResampleFrom(points, 0, <<points[1]>>, RInt(0), RInt(0),
                                    target_spacing, num_points)
         IN  Append(result, points[1])

\* subdivided[::-1]
Reverse(s) == [i \in 1..Len(s) |-> s[Len(s) + 1 - i]]

RECURSIVE Passes_forward(_, _, _)
\* passes that all run forward
Passes_forward(subdivided, pass_num, passes) ==
    IF pass_num >= passes THEN <<>>
    ELSE subdivided \o Passes_forward(subdivided, pass_num + 1, passes)

RECURSIVE Passes(_, _, _)
\* the loop "for pass_num in range(passes)" from pass_num on
Passes(subdivided, pass_num, passes) ==
    IF pass_num >= passes THEN <<>>
    ELSE (IF pass_num % 2 = 0 THEN subdivided ELSE Reverse(subdivided))
           \o Passes(subdivided, pass_num + 1, passes)

\* bean stitch: the default of the parameter passes
BEAN_PASSES == 3

\* generate_outline_stitches with the default passes
generate_outline_stitches(contour, stitch_length, pixels_per_mm, offset) ==
    IF contour = <<>> \/ Len(contour) < 2 THEN <<>>
    ELSE LET subdivided == subdivide_contour(ToPoints(contour),
                                Rat(stitch_length * pixels_per_mm, 1000))
             all == Passes(subdivided, 0, BEAN_PASSES)
         IN  IF Len(subdivided) < 2 THEN <<>>
             ELSE [i \in 1..Len(all) |-> ToUnits(all[i], pixels_per_mm, offset)]

\* generate_operation_stitches
generate_operation_stitches(op, pixels_per_mm, offset) ==
    IF op.stitch_type \in {"fill", "underlay"}
    THEN generate_fill_stitches(op.contour, op.angle, op.density, op.stitch_length,
                                pixels_per_mm, offset)
    ELSE IF op.stitch_type = "outline"
    THEN generate_outline_stitches(op.contour, op.stitch_length, pixels_per_mm,
                                   offset)
    ELSE IF op.stitch_type = "detail"
    THEN generate_fill_stitches(op.contour, op.angle, Trunc(op.density * 800, 1000),
                                op.stitch_length, pixels_per_mm, offset)
    ELSE <<>>

\* a record of the pattern: pattern.move_abs / stitch_abs / color_change / end
Rec(flag, x, y) == [flag |-> flag, x |-> x, y |-> y]

\* the records of one operation's stitches: the first stitch of the layer is a
\* move, every other one a stitch
OpRecords(stitches, first_stitch_in_layer) ==
    [i \in 1..Len(stitches) |->
        Rec(IF first_stitch_in_layer /\ i = 1 THEN "move" ELSE "stitch",
            stitches[i][1], stitches[i][2])]

\* per layer, per operation: stitches = generate_operation_stitches(op, ...)
OperationStitches(p, pixels_per_mm, offset) ==
    [l \in 1..Len(p.layers) |->
        [o \in 1..Len(p.layers[l].operations) |->
            generate_operation_stitches(p.layers[l].operations[o], pixels_per_mm,
                                        offset)]]

RECURSIVE LayerRecords_cleared(_, _)
\* an assembly that clears first_stitch_in_layer after the layer's first
\* operation, whether or not it emitted a stitch
LayerRecords_cleared(lists, first_stitch_in_layer) ==
    IF lists = <<>> THEN <<>>
    ELSE OpRecords(Head(lists), first_stitch_in_layer)
           \o LayerRecords_cleared(Tail(lists), FALSE)

RECURSIVE LayerRecords(_, _)
\* the loop over layer.operations of generate_stitches, given the stitches of
\* each operation
LayerRecords(lists, first_stitch_in_layer) ==
    IF lists = <<>> THEN <<>>
    ELSE OpRecords(Head(lists), first_stitch_in_layer)
           \o LayerRecords(Tail(lists), first_stitch_in_layer /\ Head(lists) = <<>>)

RECURSIVE PatternRecords_stop(_)
\* an assembly that gives up at the first layer that has an operation without
\* stitches: neither its color change nor any later layer is emitted
PatternRecords_stop(layer_lists) ==
    IF layer_lists = <<>> THEN <<>>
    ELSE IF \E o \in 1..Len(Head(layer_lists)) : Head(layer_lists)[o] = <<>>
    THEN <<>>
    ELSE LayerRecords(Head(layer_lists), TRUE)
           \o <<Rec("color_change", 0, 0)>>
           \o PatternRecords_stop(Tail(layer_lists))

RECURSIVE PatternRecords(_)
\* the loop over plan.layers of generate_stitches: each layer's records, then
\* its color change
PatternRecords(layer_lists) ==
    IF layer_lists = <<>> THEN <<>>
    ELSE LayerRecords(Head(layer_lists), TRUE)
           \o <<Rec("color_change", 0, 0)>>
           \o PatternRecords(Tail(layer_lists))

\* generate_stitches(plan, pixels_per_mm, offset): the pattern's records
generate_stitches(p, pixels_per_mm, offset) ==
    PatternRecords(OperationStitches(p, pixels_per_mm, offset))
        \o <<Rec("end", 0, 0)>>

----------------------------------------------------------------------------
(* image_preprocess.py: hoop handling, crop, resize, centering.  An image is *)
(* its size in pixels; the mask that background segmentation yields for it   *)
(* is its bounding rectangle <<x, y, w, h>>, or <<>> when no pixel is set.   *)

HOOP_SPECS ==
    "100x100" :> [size_mm |-> <<100, 100>>, safe_area_mm |-> <<90, 90>>, margin_mm |-> 5]
 @@ "70x70"   :> [size_mm |-> <<70, 70>>,   safe_area_mm |-> <<62, 62>>, margin_mm |-> 4]

DEFAULT_PX_PER_MM == 10

\* preprocess_for_embroidery's default safe_margin_mm
DEFAULT_SAFE_MARGIN_MM == 5

\* crop_to_content's default padding_px
DEFAULT_PADDING_PX == 10

\* crop_to_content: the size <<w, h>> of the cropped image
crop_to_content(img) ==
    IF img.mask_rect = <<>> THEN <<img.w, img.h>>
    ELSE LET x  == img.mask_rect[1]
             y  == img.mask_rect[2]
             w  == img.mask_rect[3]
             h  == img.mask_rect[4]
             x1 == Max(0, x - DEFAULT_PADDING_PX)
             y1 == Max(0, y - DEFAULT_PADDING_PX)
             x2 == Min(img.w, x + w + DEFAULT_PADDING_PX)
             y2 == Min(img.h, y + h + DEFAULT_PADDING_PX)
         IN  <<x2 - x1, y2 - y1>>

\* resize_to_safe_area: the size <<new_w, new_h>>; scale = min(tw / w, th / h)
\* is kept exact, int(w * scale) truncates.  The image sizes of Images and of
\* PreImages are ones for which the floating-point evaluation gives the same
\* integers (it does not for all: an 84 x 68 image comes out 899 wide, not 900).
resize_to_safe_area(size, safe_area_mm) ==
    LET w == size[1]
        h == size[2]
        target_w_px == safe_area_mm[1] * DEFAULT_PX_PER_MM
        target_h_px == safe_area_mm[2] * DEFAULT_PX_PER_MM
    IN  IF target_w_px * h <= target_h_px * w
        THEN <<target_w_px, (h * target_w_px) \div w>>
        ELSE <<(w * target_h_px) \div h, target_h_px>>

\* center_in_hoop: the offset at which the image is placed on the canvas
center_in_hoop(size, hoop_px) ==
    <<(hoop_px[1] - size[1]) \div 2, (hoop_px[2] - size[2]) \div 2>>

\* a hoop lookup whose fallback is the small hoop
ResolveHoop_small(id) == IF id \in DOMAIN HOOP_SPECS THEN id ELSE "70x70"

\* the hoop identifier preprocess_for_embroidery works with
ResolveHoop(id) == IF id \in DOMAIN HOOP_SPECS THEN id ELSE "100x100"

\* A mask, as far as the preprocessor looks at it: the bounding rectangle
\* <<x, y, w, h>> of its foreground pixels (<<>> when it has none) and their
\* number; with it, the number of pixels outside the mask that were not white
\* in the image, which the segmentation sets to white
Mask(rect, pixels, whitened) ==
    [mask_rect |-> rect, mask_pixels |-> pixels, whitened |-> whitened]

\* the mask with no foreground pixel
EmptyMask(whitened) == Mask(<<>>, 0, whitened)

\* the mask of w x h pixels that are all foreground
FullMask(w, h) == Mask(<<0, 0, w, h>>, w * h, 0)

\* what cv2.grabCut makes of an image: a mask, or an exception
GrabCutMask(mask) == [raises |-> FALSE, mask |-> mask]
GrabCutRaises == [raises |-> TRUE, mask |-> EmptyMask(0)]

\* remove_background_threshold: what the threshold and the morphological
\* clean-up make of the image is given with the image
remove_background_threshold(img) ==
    [ method      |-> "threshold",
      mask_rect   |-> img.threshold.mask_rect,
      mask_pixels |-> img.threshold.mask_pixels,
      whitened    |-> img.threshold.whitened ]

\* remove_background_grabcut: what cv2.grabCut makes of the image is given
\* with the image, as a mask or as the exception it raises
remove_background_grabcut(img, opencv) ==
    IF ~opencv THEN remove_background_threshold(img)
    ELSE IF img.grabcut.raises THEN remove_background_threshold(img)
    ELSE [ method      |-> "grabcut",
           mask_rect   |-> img.grabcut.mask.mask_rect,
           mask_pixels |-> img.grabcut.mask.mask_pixels,
           whitened    |-> img.grabcut.mask.whitened ]

\* Step 2 of preprocess_for_embroidery: the segmentation that is run
RemoveBackground(img, grabcut, opencv) ==
    IF grabcut /\ opencv THEN remove_background_grabcut(img, opencv)
    ELSE remove_background_threshold(img)

\* Steps 2 and 3 of preprocess_for_embroidery: fg_image, mask and method, then
\* the size of cropped_image and the foreground pixels of cropped_mask (the crop
\* holds every foreground pixel)
PreprocessLocals(img, grabcut, opencv) ==
    LET removed == RemoveBackground(img, grabcut, opencv)
        cropped == crop_to_content([w |-> img.w, h |-> img.h,
                                    mask_rect |-> removed.mask_rect])
    IN  [ method         |-> removed.method,
          mask_rect      |-> removed.mask_rect,
          mask_pixels    |-> removed.mask_pixels,
          whitened       |-> removed.whitened,
          cropped_size   |-> cropped,
          cropped_pixels |-> removed.mask_pixels ]

\* no call of preprocess_for_embroidery made yet
NoSeg ==
    [ method |-> "none", mask_rect |-> <<>>, mask_pixels |-> 0, whitened |-> 0,
      cropped_size |-> <<0, 0>>, cropped_pixels |-> 0 ]

\* preprocess_for_embroidery(image, hoop_size=id, safe_margin_mm=margin,
\* use_grabcut=grabcut) with HAS_OPENCV = opencv
preprocess_for_embroidery(img, id, margin, grabcut, opencv) ==
    LET hoop == ResolveHoop(id)
        spec == HOOP_SPECS[hoop]
        locals == PreprocessLocals(img, grabcut, opencv)
        safe_area_mm == <<spec.size_mm[1] - 2 * margin, spec.size_mm[2] - 2 * margin>>
        resized == resize_to_safe_area(locals.cropped_size, safe_area_mm)
        hoop_px == <<spec.size_mm[1] * DEFAULT_PX_PER_MM,
                     spec.size_mm[2] * DEFAULT_PX_PER_MM>>
    IN  [ status             |-> "returned",
          hoop_size          |-> hoop,
          safe_area_mm       |-> safe_area_mm,
          pixels_per_mm      |-> DEFAULT_PX_PER_MM,
          original_size      |-> <<img.w, img.h>>,
          resized_size       |-> resized,
          offset             |-> center_in_hoop(resized, hoop_px),
          final_size         |-> hoop_px,
          background_removed |-> locals.mask_pixels < img.w * img.h,
          method_used        |-> locals.method ]

\* no call of preprocess_for_embroidery made yet
NoResult ==
    [ status |-> "none", hoop_size |-> "", safe_area_mm |-> <<0, 0>>,
      pixels_per_mm |-> 0, original_size |-> <<0, 0>>, resized_size |-> <<0, 0>>,
      offset |-> <<0, 0>>, final_size |-> <<0, 0>>, background_removed |-> FALSE,
      method_used |-> "none" ]

\* an image of w x h pixels with what cv2.grabCut and the threshold make of it
Image(w, h, grabcut, threshold) ==
    [w |-> w, h |-> h, grabcut |-> grabcut, threshold |-> threshold]

\* no image given
NoImage == Image(0, 0, GrabCutMask(EmptyMask(0)), EmptyMask(0))

\* images given to the preprocessor: a small square that is all foreground, a
\* wide image, a tall image with margins around its content, an image whose
\* segmentation leaves no foreground
Images ==
    { Image(200, 200, GrabCutMask(FullMask(200, 200)), FullMask(200, 200)),
      Image(1200, 600, GrabCutMask(FullMask(1200, 600)), FullMask(1200, 600)),
      Image(340, 740, GrabCutMask(Mask(<<30, 30, 280, 680>>, 150000, 2000)),
                      Mask(<<30, 30, 280, 680>>, 150000, 2000)),
      Image(640, 480, GrabCutMask(EmptyMask(300000)), EmptyMask(300000)) }

\* hoop identifiers a caller may pass: the two hoops and an unknown one
HoopIds == {"100x100", "70x70", "150x150"}

----------------------------------------------------------------------------
(* shape_analyzer.py: measurements of a contour and classification.         *)
(* Lengths and areas are floats in the code and exact rationals here.        *)

\* Region classification thresholds
MIN_AREA_MM2 == Rat(2, 1)

\* MIN_PERIMETER_MM = 3.0: defined, and read by no line of the module
MIN_PERIMETER_MM == Rat(3, 1)
OUTLINE_COMPACTNESS == Rat(1, 10)
OUTLINE_ASPECT_RATIO == Rat(8, 1)
DETAIL_AREA_MM2 == Rat(5, 1)
SIMPLIFY_EPSILON_MM == Rat(3, 10)

\* math.pi, to seven digits
PI == Rat(355, 113)

\* a classification that sends the boundary values to the earlier rule
classify_region_le(area_mm2, perimeter_mm, compactness, aspect_ratio) ==
    IF RLe(compactness, OUTLINE_COMPACTNESS) THEN "outline"
    ELSE IF RLe(OUTLINE_ASPECT_RATIO, aspect_ratio) THEN "outline"
    ELSE IF RLe(area_mm2, DETAIL_AREA_MM2) THEN "detail"
    ELSE "fill"

\* classify_region
classify_region(area_mm2, perimeter_mm, compactness, aspect_ratio) ==
    IF RLt(compactness, OUTLINE_COMPACTNESS) THEN "outline"
    ELSE IF RLt(OUTLINE_ASPECT_RATIO, aspect_ratio) THEN "outline"
    ELSE IF RLt(area_mm2, DETAIL_AREA_MM2) THEN "detail"
    ELSE "fill"

\* the vertex after vertex i of a closed contour
NextIdx(c, i) == (i % Len(c)) + 1

\* cv2.contourArea(contour): the absolute shoelace area
contourArea(c) ==
    IF Len(c) < 3 THEN Rat(0, 1)
    ELSE Rat(Abs(SumSeq([i \in 1..Len(c) |->
                 c[i][1] * c[NextIdx(c, i)][2] - c[NextIdx(c, i)][1] * c[i][2]])), 2)

RECURSIVE Newton(_, _)
\* Newton's iteration for the integer square root of n, from the guess r > 0
Newton(n, r) ==
    LET r2 == (r + (n \div r)) \div 2
    IN  IF r2 >= r THEN r ELSE Newton(n, r2)

\* the largest integer whose square is at most n
ISqrt(n) == IF n = 0 THEN 0 ELSE Newton(n, n)

\* the length of an edge.  It is exact for an axis-parallel edge and for one
\* whose squared length is a perfect square; any other length is irrational
\* and is rounded down to a hundredth of a pixel.  The simplified contours of
\* the model have edges of integer length only.
EdgeLen(p, q) ==
    LET dx == Abs(q[1] - p[1])
        dy == Abs(q[2] - p[2])
        d2 == dx * dx + dy * dy
    IN  IF dx = 0 \/ dy = 0 THEN RInt(dx + dy)
        ELSE IF ISqrt(d2) * ISqrt(d2) = d2 THEN RInt(ISqrt(d2))
        ELSE Rat(ISqrt(d2 * 10000), 100)

\* cv2.arcLength(contour, True): the closing edge included
arcLength(c) ==
    IF Len(c) < 2 THEN RInt(0)
    ELSE RSum([i \in 1..Len(c) |-> EdgeLen(c[i], c[NextIdx(c, i)])])

RECURSIVE MinSeq(_)
MinSeq(s) == IF Len(s) = 1 THEN s[1] ELSE Min(Head(s), MinSeq(Tail(s)))

RECURSIVE MaxSeq(_)
MaxSeq(s) == IF Len(s) = 1 THEN s[1] ELSE Max(Head(s), MaxSeq(Tail(s)))

\* cv2.boundingRect(contour): <<x, y, w, h>>, both border columns and rows counted
boundingRect(c) ==
    LET xs == [i \in 1..Len(c) |-> c[i][1]]
        ys == [i \in 1..Len(c) |-> c[i][2]]
    IN  <<MinSeq(xs), MinSeq(ys), MaxSeq(xs) - MinSeq(xs) + 1, MaxSeq(ys) - MinSeq(ys) + 1>>

HexDigits == <<"0", "1", "2", "3", "4", "5", "6", "7", "8", "9", "A", "B", "C", "D", "E", "F">>

\* '{:02X}'.format(n) for 0 <= n <= 255
Hex2(n) == HexDigits[(n \div 16) + 1] \o HexDigits[(n % 16) + 1]

\* '#{:02X}{:02X}{:02X}'.format(*color_rgb)
ColorHex(color_rgb) == "#" \o Hex2(color_rgb[1]) \o Hex2(color_rgb[2]) \o Hex2(color_rgb[3])

\* calculate_principal_angle: 0.0 for fewer than 5 points; otherwise the angle
\* of the ellipse that cv2.fitEllipse fits, which is not computed here
calculate_principal_angle(c) == IF Len(c) < 5 THEN 0 ELSE "fitEllipse"

\* aspect_ratio = w / max(h, 1)
AspectRatio(w, h) == Rat(w, Max(h, 1))

\* create_region_from_contour (the centroid is left out)
create_region_from_contour(contour, holes, color_rgb, pixels_per_mm) ==
    LET area_px      == contourArea(contour)
        perimeter_px == arcLength(contour)
        area_mm2     == RDiv(area_px, RInt(pixels_per_mm * pixels_per_mm))
        perimeter_mm == RDiv(perimeter_px, RInt(pixels_per_mm))
        box          == boundingRect(contour)
        aspect_ratio == AspectRatio(box[3], box[4])
        compactness  == IF RLt(RInt(0), perimeter_px)
                        THEN RDiv(RMul(RMul(RInt(4), PI), area_px),
                                  RMul(perimeter_px, perimeter_px))
                        ELSE RInt(0)
    IN  [ color_hex       |-> ColorHex(color_rgb),
          color_rgb       |-> color_rgb,
          region_type     |-> classify_region(area_mm2, perimeter_mm, compactness,
                                              aspect_ratio),
          contours        |-> <<contour>>,
          holes           |-> holes,
          area_mm2        |-> area_mm2,
          perimeter_mm    |-> perimeter_mm,
          principal_angle |-> calculate_principal_angle(contour),
          bounding_box    |-> box,
          aspect_ratio    |-> aspect_ratio,
          compactness     |-> compactness ]

----------------------------------------------------------------------------
(* shape_analyzer.py: extract_regions.  The quantized image is given as the  *)
(* color layers of its palette, in palette order.  A layer is its color and  *)
(* the connected components of the pixels of that color; a component is the  *)
(* outer contour and the hole contours that cv2.findContours (RETR_CCOMP,    *)
(* CHAIN_APPROX_SIMPLE) returns for it, and its number of pixels.            *)

\* the point at 0-based position i of a closed contour
At(c, i) == c[(i % Len(c)) + 1]

Dist2(p, q) == (q[1] - p[1]) * (q[1] - p[1]) + (q[2] - p[2]) * (q[2] - p[2])

\* the largest number of a set of naturals, 0 for the empty set
SetMax(S) == IF S = {} THEN 0 ELSE CHOOSE x \in S : \A y \in S : y <= x

\* approxPolyDP, search for a far point: the largest squared distance from the
\* point at position s
FarthestDist2(c, s) == SetMax({ Dist2(At(c, s), At(c, s + j)) : j \in 1..(Len(c) - 1) })

\* the offset of the first point at that distance; the previous offset when
\* no point is away from the start
FarthestOffset(c, s, prev) ==
    IF FarthestDist2(c, s) = 0 THEN prev
    ELSE CHOOSE j \in 1..(Len(c) - 1) :
            /\ Dist2(At(c, s), At(c, s + j)) = FarthestDist2(c, s)
            /\ \A k \in 1..(j - 1) : Dist2(At(c, s), At(c, s + k)) < FarthestDist2(c, s)

\* three rounds of that search, each starting at the point the round before
\* found: the start position and the far position of the last round
FarPair(c) ==
    LET n  == Len(c)
        r1 == FarthestOffset(c, 0, 0)
        s2 == r1 % n
        r2 == FarthestOffset(c, s2, r1)
        s3 == (s2 + r2) % n
        r3 == FarthestOffset(c, s3, r2)
    IN  [start |-> s3, far |-> (s3 + r3) % n, max_dist |-> FarthestDist2(c, s3)]

\* twice the area of the triangle of the chord a-b and the point p
Cross(a, b, p) == Abs((p[2] - a[2]) * (b[1] - a[1]) - (p[1] - a[1]) * (b[2] - a[2]))

RECURSIVE ApproxSlice(_, _, _, _)
\* approxPolyDP, the Douglas-Peucker step on the slice from position a to
\* position b: the start point is kept when every point between lies within
\* epsilon of the chord, otherwise the slice is split at the first farthest
\* point.  eps2 is the squared epsilon.
ApproxSlice(c, a, b, eps2) ==
    LET n     == Len(c)
        len   == (b + n - a) % n
        start == At(c, a)
        end   == At(c, b)
        maxc  == SetMax({ Cross(start, end, At(c, a + k)) : k \in 1..(len - 1) })
        m     == CHOOSE k \in 1..(len - 1) :
                    /\ Cross(start, end, At(c, a + k)) = maxc
                    /\ \A i \in 1..(k - 1) : Cross(start, end, At(c, a + i)) < maxc
    IN  IF len <= 1 \/ RLe(RInt(maxc * maxc), RMul(eps2, RInt(Dist2(start, end))))
        THEN <<start>>
        ELSE ApproxSlice(c, a, (a + m) % n, eps2) \o ApproxSlice(c, (a + m) % n, b, eps2)

\* cv2.approxPolyDP(contour, epsilon, True).  The library's last pass, which
\* drops a vertex that lies almost on the line through its neighbours, removes
\* nothing from the results for the contours of the model (corners of
\* rectangles, or results of two points, which that pass leaves alone).
approxPolyDP(c, epsilon) ==
    IF c = <<>> THEN <<>>
    ELSE LET eps2 == RMul(epsilon, epsilon)
             pair == FarPair(c)
         IN  IF RLe(RInt(pair.max_dist), eps2) THEN <<At(c, pair.start)>>
             ELSE ApproxSlice(c, pair.start, pair.far, eps2)
                    \o ApproxSlice(c, pair.far, pair.start, eps2)

\* the colors extract_regions skips as background
IsBackground(color_rgb) ==
    color_rgb = <<255, 255, 255>> \/ color_rgb[1] + color_rgb[2] + color_rgb[3] > 750

\* the loop over the child contours: the simplified holes of a component
SimplifiedHoles(holes, min_area_px, epsilon_px) ==
    LET kept == SelectSeq(holes, LAMBDA h :
                    RLt(RMul(min_area_px, Rat(1, 2)), contourArea(h)))
    IN  [i \in 1..Len(kept) |-> approxPolyDP(kept[i], epsilon_px)]

\* the filters on the raw outer contour
PassesFilters(outer, min_area, pixels_per_mm) ==
    /\ ~RLt(contourArea(outer), RMul(min_area, RInt(pixels_per_mm * pixels_per_mm)))
    /\ ~RLt(arcLength(outer), RMul(min_area, RInt(pixels_per_mm)))

RECURSIVE ComponentRegions(_, _, _, _)
\* the loop over the outer contours of one color
ComponentRegions(components, color_rgb, min_area, pixels_per_mm) ==
    IF components = <<>> THEN <<>>
    ELSE LET comp == Head(components)
             epsilon_px  == RMul(SIMPLIFY_EPSILON_MM, RInt(pixels_per_mm))
             min_area_px == RMul(min_area, RInt(pixels_per_mm * pixels_per_mm))
         IN  (IF PassesFilters(comp.outer, min_area, pixels_per_mm)
              THEN << create_region_from_contour(
                          approxPolyDP(comp.outer, epsilon_px),
                          SimplifiedHoles(comp.holes, min_area_px, epsilon_px),
                          color_rgb, pixels_per_mm) >>
              ELSE <<>>)
             \o ComponentRegions(Tail(components), color_rgb, min_area, pixels_per_mm)

RECURSIVE PaletteRegions(_, _, _)
\* the loop over color_palette
PaletteRegions(layers, min_area, pixels_per_mm) ==
    IF layers = <<>> THEN <<>>
    ELSE (IF IsBackground(Head(layers).color_rgb) THEN <<>>
          ELSE ComponentRegions(Head(layers).components, Head(layers).color_rgb,
                                min_area, pixels_per_mm))
         \o PaletteRegions(Tail(layers), min_area, pixels_per_mm)

RECURSIVE InsertByArea(_, _)
\* r goes behind every region that is at least as large
InsertByArea(r, sorted) ==
    IF sorted = <<>> THEN <<r>>
    ELSE IF RLt(Head(sorted).area_mm2, r.area_mm2) THEN <<r>> \o sorted
    ELSE <<Head(sorted)>> \o InsertByArea(r, Tail(sorted))

RECURSIVE SortByArea(_, _)
\* regions.sort(key=lambda r: r.area_mm2, reverse=True): stable, largest first
SortByArea(rs, sorted) ==
    IF rs = <<>> THEN sorted ELSE SortByArea(Tail(rs), InsertByArea(Head(rs), sorted))

\* the containment test with the threshold itself included
IsContainedIn_atleast(region, other) ==
    LET r_box == region.bounding_box
        o_box == other.bounding_box
        x1 == Max(r_box[1], o_box[1])
        y1 == Max(r_box[2], o_box[2])
        x2 == Min(r_box[1] + r_box[3], o_box[1] + o_box[3])
        y2 == Min(r_box[2] + r_box[4], o_box[2] + o_box[4])
    IN  /\ RLt(region.area_mm2, other.area_mm2)
        /\ x1 < x2 /\ y1 < y2
        /\ r_box[3] * r_box[4] > 0
        /\ RLe(Rat(8, 10), Rat((x2 - x1) * (y2 - y1), r_box[3] * r_box[4]))

\* filter_overlapping_regions, the inner test: region is mostly inside the
\* bounding box of the larger region other
IsContainedIn(region, other) ==
    LET r_box == region.bounding_box
        o_box == other.bounding_box
        x1 == Max(r_box[1], o_box[1])
        y1 == Max(r_box[2], o_box[2])
        x2 == Min(r_box[1] + r_box[3], o_box[1] + o_box[3])
        y2 == Min(r_box[2] + r_box[4], o_box[2] + o_box[4])
    IN  /\ RLt(region.area_mm2, other.area_mm2)
        /\ x1 < x2 /\ y1 < y2
        /\ r_box[3] * r_box[4] > 0
        /\ RLt(Rat(8, 10), Rat((x2 - x1) * (y2 - y1), r_box[3] * r_box[4]))

\* filter_overlapping_regions with the default overlap_threshold; a region is
\* never larger than itself, so the test i == j needs no case of its own
filter_overlapping_regions(rs) ==
    IF Len(rs) <= 1 THEN rs
    ELSE SelectSeq(rs, LAMBDA r : ~\E j \in 1..Len(rs) : IsContainedIn(r, rs[j]))

\* the smallest and the largest coordinate (k = 1: x, k = 2: y) of the pixels
\* of a color layer
LayerMin(layer, k) ==
    MinSeq([i \in 1..Len(layer.components) |->
               MinSeq([j \in 1..Len(layer.components[i].outer) |->
                          layer.components[i].outer[j][k]])])

LayerMax(layer, k) ==
    MaxSeq([i \in 1..Len(layer.components) |->
               MaxSeq([j \in 1..Len(layer.components[i].outer) |->
                          layer.components[i].outer[j][k]])])

\* _extract_regions_fallback, the Region of one color: its bounding box
FallbackRegion(layer, pixels_per_mm) ==
    LET x_min == LayerMin(layer, 1)
        x_max == LayerMax(layer, 1)
        y_min == LayerMin(layer, 2)
        y_max == LayerMax(layer, 2)
        w == x_max - x_min + 1
        h == y_max - y_min + 1
        area_px == SumSeq([i \in 1..Len(layer.components) |-> layer.components[i].pixels])
        area_mm2 == Rat(area_px, pixels_per_mm * pixels_per_mm)
    IN  [ color_hex       |-> ColorHex(layer.color_rgb),
          color_rgb       |-> layer.color_rgb,
          region_type     |-> IF RLt(DETAIL_AREA_MM2, area_mm2) THEN "fill" ELSE "detail",
          contours        |-> << << <<x_min, y_min>>, <<x_max, y_min>>,
                                    <<x_max, y_max>>, <<x_min, y_max>> >> >>,
          holes           |-> <<>>,
          area_mm2        |-> area_mm2,
          perimeter_mm    |-> Rat(2 * (w + h), pixels_per_mm),
          principal_angle |-> 0,
          bounding_box    |-> <<x_min, y_min, w, h>>,
          aspect_ratio    |-> AspectRatio(w, h),
          compactness     |-> RInt(1) ]

RECURSIVE extract_regions_fallback(_, _)
\* _extract_regions_fallback(quantized_image, color_palette, pixels_per_mm)
extract_regions_fallback(layers, pixels_per_mm) ==
    IF layers = <<>> THEN <<>>
    ELSE LET layer == Head(layers)
         IN  (IF layer.color_rgb = <<255, 255, 255>> \/ layer.components = <<>>
              THEN <<>>
              ELSE IF RLt(FallbackRegion(layer, pixels_per_mm).area_mm2, MIN_AREA_MM2)
              THEN <<>>
              ELSE <<FallbackRegion(layer, pixels_per_mm)>>)
             \o extract_regions_fallback(Tail(layers), pixels_per_mm)

\* the default of the parameter pixels_per_mm of extract_regions
EXTRACT_PIXELS_PER_MM == 10

\* extract_regions(quantized_image, color_palette, min_area_mm2=min_area), with
\* HAS_OPENCV given
extract_regions(layers, min_area, opencv) ==
    IF ~opencv THEN extract_regions_fallback(layers, EXTRACT_PIXELS_PER_MM)
    ELSE filter_overlapping_regions(
             SortByArea(PaletteRegions(layers, min_area, EXTRACT_PIXELS_PER_MM), <<>>))

\* no call of classify_region made yet
NoArgs == [area_mm2 |-> RInt(0), perimeter_mm |-> RInt(0), compactness |-> RInt(0),
           aspect_ratio |-> RInt(0)]

\* no function called on its own
NoCall == [fn |-> "none"]

\* the scan loop of generate_fill_stitches not entered
NoScan == [direction |-> 0]

\* no call of create_region_from_contour made yet
NoRegion == [region_type |-> "none"]

----------------------------------------------------------------------------
(* Inputs of the planner runs *)

\* an axis-aligned square contour of side s pixels at the origin
SquareContour(s) == << <<0, 0>>, <<s, 0>>, <<s, s>>, <<0, s>> >>

Region(c, t, a, p, ang, cs) ==
    [color_hex |-> c, region_type |-> t, area_mm2 |-> a, perimeter_mm |-> p,
     principal_angle |-> ang, contours |-> cs]

\* regions of three colors: fills at, above and far above the underlay
\* threshold, an outline, a detail, a region of a type the planner does not know
RegionPool ==
    { Region("#FF0000", "fill",    60,   32,  0,   <<SquareContour(80)>>),
      Region("#FF0000", "outline", 20,   42,  0,   <<SquareContour(100)>>),
      Region("#FF0000", "detail",  4,    8,   45,  <<SquareContour(20)>>),
      Region("#FF0000", "satin",   9,    12,  0,   <<SquareContour(30)>>),
      Region("#00FF00", "fill",    50,   30,  135, <<SquareContour(70)>>),
      Region("#00FF00", "fill",    8100, 360, 90,  <<SquareContour(900)>>),
      Region("#00FF00", "outline", 6,    26,  0,   <<>>),
      Region("#0000FF", "fill",    6400, 320, 30,  <<SquareContour(800)>>),
      Region("#0000FF", "satin",   9,    12,  0,   <<SquareContour(30)>>),
      Region("#0000FF", "detail",  1,    4,   0,   <<SquareContour(10)>>) }

RECURSIVE SeqsUpTo(_, _)
\* all sequences over S of length at most n
SeqsUpTo(S, n) ==
    IF n = 0 THEN {<<>>}
    ELSE LET shorter == SeqsUpTo(S, n - 1)
         IN  shorter \cup {Append(s, x) : s \in shorter, x \in S}

\* preset identifiers a caller may pass: the three presets and an unknown one
PresetIds == {"fast", "balanced", "quality", "turbo"}

\* density scalings a caller may pass (thousandths): documented range 0.5-2.0,
\* and zero and a negative value
DensityMultipliers == {-1000, 0, 500, 1000, 2000}

----------------------------------------------------------------------------
(* Specification SpecPlan: one call of plan_stitches *)

InitPlan ==
    /\ pc = "call"
    /\ outcome = "none"
    /\ regions \in SeqsUpTo(RegionPool, MaxRegions)
    /\ quality_preset \in PresetIds
    /\ density_multiplier \in DensityMultipliers
    /\ plan = NewPlan
    /\ validate_out = <<>>
    /\ hoop_size = "100x100"
    /\ image = NoImage
    /\ pre = NoResult
    /\ center_offset = <<0, 0>>
    /\ op_stitches = <<>>
    /\ pattern = <<>>
    /\ has_opencv = TRUE
    /\ use_grabcut = TRUE
    /\ seg = NoSeg
    /\ call_args = NoCall
    /\ call_out = NoCall
    /\ scan = NoScan
    /\ cls_args = NoArgs
    /\ cls_out = ""
    /\ contour_in = <<>>
    /\ region_out = NoRegion
    /\ quantized = <<>>
    /\ min_area_mm2 = MIN_AREA_MM2
    /\ extracted = <<>>

PlanStitches ==
    /\ pc = "call"
    /\ plan' = plan_stitches(regions, quality_preset, density_multiplier)
    /\ outcome' = "returned"
    /\ pc' = "planned"
    /\ UNCHANGED callVars
    /\ UNCHANGED <<regions, quality_preset, density_multiplier, validate_out>>
    /\ UNCHANGED preVars
    /\ UNCHANGED genVars
    /\ UNCHANGED shapeVars

NextPlan == PlanStitches

SpecPlan == InitPlan /\ [][NextPlan]_vars

----------------------------------------------------------------------------
(* Specification SpecIds: the identifiers of a run.  The image is           *)
(* preprocessed for a hoop identifier, then regions are planned with a      *)
(* preset identifier.                                                        *)

\* longest region list of these runs
MaxIdRegions == 2

InitIds ==
    /\ pc = "start"
    /\ outcome = "none"
    /\ regions \in SeqsUpTo(RegionPool, MaxIdRegions)
    /\ quality_preset \in PresetIds
    /\ density_multiplier \in {1000, 2000}
    /\ plan = NewPlan
    /\ validate_out = <<>>
    /\ hoop_size \in HoopIds
    /\ image \in Images
    /\ pre = NoResult
    /\ center_offset = <<0, 0>>
    /\ op_stitches = <<>>
    /\ pattern = <<>>
    /\ has_opencv = TRUE
    /\ use_grabcut = TRUE
    /\ seg = NoSeg
    /\ call_args = NoCall
    /\ call_out = NoCall
    /\ scan = NoScan
    /\ cls_args = NoArgs
    /\ cls_out = ""
    /\ contour_in = <<>>
    /\ region_out = NoRegion
    /\ quantized = <<>>
    /\ min_area_mm2 = MIN_AREA_MM2
    /\ extracted = <<>>

\* pre = preprocess_for_embroidery(image, hoop_size=hoop_size)
Preprocess ==
    /\ pc = "start"
    /\ pre' = preprocess_for_embroidery(image, hoop_size, DEFAULT_SAFE_MARGIN_MM,
                                        use_grabcut, has_opencv)
    /\ seg' = PreprocessLocals(image, use_grabcut, has_opencv)
    /\ pc' = "call"
    /\ UNCHANGED callVars
    /\ UNCHANGED <<outcome, regions, quality_preset, density_multiplier, plan,
                   validate_out, hoop_size, image, has_opencv, use_grabcut>>
    /\ UNCHANGED genVars
    /\ UNCHANGED shapeVars

NextIds == Preprocess \/ PlanStitches

SpecIds == InitIds /\ [][NextIds]_vars

----------------------------------------------------------------------------
(* Specification SpecGen: regions are planned, then generate_stitches turns  *)
(* the plan into the pattern's records                                        *)

\* longest region list of these runs
MaxGenRegions == 2

\* the default of the parameter pixels_per_mm of generate_stitches
GEN_PIXELS_PER_MM == 10

\* a rectangular contour in pixels
RectContour(x, y, w, h) == << <<x, y>>, <<x + w, y>>, <<x + w, y + h>>, <<x, y + h>> >>

\* Regions with contours, at 10 pixels per mm.  With the presets of
\* GenPresetIds every coordinate that the floating-point code computes for
\* these regions truncates to the integer that the exact value truncates to
\* (cross-checked against a floating-point evaluation of the code).
GenRegionPool ==
    { Region("#FF0000", "fill", 64, 32, 0, <<RectContour(100, 100, 80, 80)>>),
      Region("#FF0000", "detail", 4, 8, 0, <<RectContour(10, 10, 20, 20)>>),
      Region("#00FF00", "fill", 1, 6, 0, << << <<0, 0>>, <<30, 0>> >> >>),
      Region("#0000FF", "outline", 12, 16, 0, <<RectContour(200, 50, 60, 20)>>),
      Region("#00FF00", "fill", 60, 20, 0, <<>>),
      Region("#0000FF", "outline", 3, 7, 0, << << <<5, 5>> >> >>) }

GenPresetIds == {"fast", "balanced"}

CenterOffsets == { <<0, 0>>, <<500, 500>> }

InitGen ==
    /\ pc = "call"
    /\ outcome = "none"
    /\ regions \in SeqsUpTo(GenRegionPool, MaxGenRegions)
    /\ quality_preset \in GenPresetIds
    /\ density_multiplier = 1000
    /\ plan = NewPlan
    /\ validate_out = <<>>
    /\ hoop_size = "100x100"
    /\ image = NoImage
    /\ pre = NoResult
    /\ center_offset \in CenterOffsets
    /\ op_stitches = <<>>
    /\ pattern = <<>>
    /\ has_opencv = TRUE
    /\ use_grabcut = TRUE
    /\ seg = NoSeg
    /\ call_args = NoCall
    /\ call_out = NoCall
    /\ scan = NoScan
    /\ cls_args = NoArgs
    /\ cls_out = ""
    /\ contour_in = <<>>
    /\ region_out = NoRegion
    /\ quantized = <<>>
    /\ min_area_mm2 = MIN_AREA_MM2
    /\ extracted = <<>>

\* pattern = generate_stitches(plan, center_offset=center_offset)
GenerateStitches ==
    /\ pc = "planned"
    /\ op_stitches' = OperationStitches(plan, GEN_PIXELS_PER_MM, center_offset)
    /\ pattern' = generate_stitches(plan, GEN_PIXELS_PER_MM, center_offset)
    /\ outcome' = "returned"
    /\ pc' = "generated"
    /\ UNCHANGED callVars
    /\ UNCHANGED <<regions, quality_preset, density_multiplier, plan, validate_out,
                   center_offset>>
    /\ UNCHANGED preVars
    /\ UNCHANGED shapeVars

NextGen == PlanStitches \/ GenerateStitches

SpecGen == InitGen /\ [][NextGen]_vars

----------------------------------------------------------------------------
(* Specification SpecBuild: a plan assembled by hand through the StitchPlan  *)
(* interface (add_operation, add_layer), then finalize and validate_plan     *)

\* areas of the fill regions the hand-made layers are built from: at density
\* 5.0 their fills are estimated at 1,000 and 5,000 stitches
SyntheticAreas == {400, 2000}

InitBuild ==
    /\ pc = "build"
    /\ outcome = "none"
    /\ regions = <<>>
    /\ quality_preset = "balanced"
    /\ density_multiplier = 1000
    /\ plan = NewPlan
    /\ validate_out = <<>>
    /\ hoop_size = "100x100"
    /\ image = NoImage
    /\ pre = NoResult
    /\ center_offset = <<0, 0>>
    /\ op_stitches = <<>>
    /\ pattern = <<>>
    /\ has_opencv = TRUE
    /\ use_grabcut = TRUE
    /\ seg = NoSeg
    /\ call_args = NoCall
    /\ call_out = NoCall
    /\ scan = NoScan
    /\ cls_args = NoArgs
    /\ cls_out = ""
    /\ contour_in = <<>>
    /\ region_out = NoRegion
    /\ quantized = <<>>
    /\ min_area_mm2 = MIN_AREA_MM2
    /\ extracted = <<>>

\* layer = StitchLayer(...); layer.add_operation(op); plan.add_layer(layer)
AddLayer ==
    /\ pc = "build"
    /\ Len(plan.layers) < MaxLayers
    /\ \E a \in SyntheticAreas :
          LET region == Region("#808080", "fill", a, 0, 0, <<>>)
              op     == create_fill_operation(region, PP1_DEFAULTS.fill_density)
          IN  plan' = add_layer(plan, add_operation(NewLayer(region.color_hex), op))
    /\ UNCHANGED <<pc, outcome, regions, quality_preset, density_multiplier,
                   validate_out>>
    /\ UNCHANGED callVars
    /\ UNCHANGED preVars
    /\ UNCHANGED genVars
    /\ UNCHANGED shapeVars

\* plan.finalize()
Finalize ==
    /\ pc = "build"
    /\ plan' = finalize(plan)
    /\ pc' = "finalized"
    /\ UNCHANGED callVars
    /\ UNCHANGED <<outcome, regions, quality_preset, density_multiplier,
                   validate_out>>
    /\ UNCHANGED preVars
    /\ UNCHANGED genVars
    /\ UNCHANGED shapeVars

\* validate_out = validate_plan(plan), on a plan finalized or not
ValidatePlan ==
    /\ pc \in {"build", "finalized"}
    /\ validate_out' = validate_plan(plan)
    /\ pc' = "validated"
    /\ UNCHANGED callVars
    /\ UNCHANGED <<outcome, regions, quality_preset, density_multiplier, plan>>
    /\ UNCHANGED preVars
    /\ UNCHANGED genVars
    /\ UNCHANGED shapeVars

NextBuild == AddLayer \/ Finalize \/ ValidatePlan

SpecBuild == InitBuild /\ [][NextBuild]_vars

----------------------------------------------------------------------------
(* Properties of finalize and validate_plan, checked under SpecBuild *)

\* the elements of a sequence
Elems(s) == {s[i] : i \in 1..Len(s)}

\* C2: finalize attaches the hard warning when total_stitches > 20000, only
\* the soft warning when 15000 < total_stitches <= 20000, and no stitch-count
\* warning when total_stitches <= 15000
C2_StitchCountWarnings ==
    pc = "finalized" =>
        /\ "hard" \in Elems(plan.warnings) <=> plan.total_stitches > 20000
        /\ "soft" \in Elems(plan.warnings)
              <=> (plan.total_stitches > 15000 /\ plan.total_stitches <= 20000)

\* a finalized plan of 16,000 stitches, carrying the soft warning only
C2_Witness ==
    /\ pc = "finalized"
    /\ plan.total_stitches = 16000
    /\ plan.warnings = <<"soft">>

\* C3 as stated: _validate (through finalize) and validate_plan both report
\* the many-colors warning exactly when the plan has more than 10 layers
C3_ManyColorsAbove10 ==
    /\ pc = "finalized" =>
          ("colors" \in Elems(plan.warnings) <=> Len(plan.layers) > 10)
    /\ pc = "validated" =>
          ("colors" \in Elems(validate_out) <=> Len(plan.layers) > 10)

----------------------------------------------------------------------------
(* Properties of plan_stitches, checked under SpecPlan *)

Planned == pc = "planned"

\* the density multiplier of a preset identifier the planner knows, in thousandths
PresetMultiplier(id) ==
    IF id = "fast" THEN 800 ELSE IF id = "balanced" THEN 1000 ELSE 1200

\* whether the run plans underlays: every preset but fast, the fallback included
UnderlayOn == quality_preset # "fast"

\* the operation types the planner is to produce for one region
ExpectedTypes(r) ==
    IF r.region_type = "fill"
    THEN IF UnderlayOn /\ r.area_mm2 > 50
         THEN <<"underlay", "fill", "outline">>
         ELSE <<"fill", "outline">>
    ELSE IF r.region_type = "outline" THEN <<"outline">>
    ELSE IF r.region_type = "detail" THEN <<"fill", "outline">>
    ELSE <<>>

RECURSIVE ExpectedLayerOps(_, _)
\* for the regions of color c in input order from index i on: one
\* <<region, type>> pair per expected operation
ExpectedLayerOps(c, i) ==
    IF i > Len(regions) THEN <<>>
    ELSE (IF regions[i].color_hex = c
          THEN [k \in 1..Len(ExpectedTypes(regions[i])) |->
                    <<regions[i], ExpectedTypes(regions[i])[k]>>]
          ELSE <<>>)
         \o ExpectedLayerOps(c, i + 1)

\* the <<region, type>> pairs of a layer's operations
LayerOpPairs(layer) ==
    [k \in 1..Len(layer.operations) |->
        <<layer.operations[k].region, layer.operations[k].stitch_type>>]

\* position of the first region of color c in the input
FirstIndex(c) ==
    CHOOSE i \in 1..Len(regions) :
        /\ regions[i].color_hex = c
        /\ \A j \in 1..(i - 1) : regions[j].color_hex # c

\* C1: the plan's total_stitches is the sum of its layers' estimated_stitches,
\* and every layer's estimated_stitches is the sum over its operations
C1_TotalsAreSums ==
    Planned =>
        /\ plan.total_stitches = SumSeq(EstimatesOf(plan.layers))
        /\ \A i \in 1..Len(plan.layers) :
              plan.layers[i].estimated_stitches
                = SumSeq(EstimatesOf(plan.layers[i].operations))

C1_Witness ==
    /\ Planned
    /\ Len(plan.layers) >= 2
    /\ \E i \in 1..Len(plan.layers) : Len(plan.layers[i].operations) >= 4
    /\ plan.total_stitches > 0

\* C4: the layers come in the order in which their colors first occur in the
\* input, one layer per color that has at least one operation, and inside a
\* layer the operations follow the input order of that color's regions
C4_LayerOrder ==
    Planned =>
        /\ \A i, j \in 1..Len(plan.layers) :
              i < j => FirstIndex(plan.layers[i].color_hex)
                         < FirstIndex(plan.layers[j].color_hex)
        /\ {plan.layers[i].color_hex : i \in 1..Len(plan.layers)}
              = {regions[i].color_hex : i \in
                    {k \in 1..Len(regions) :
                        regions[k].region_type \in {"fill", "outline", "detail"}}}
        /\ \A i \in 1..Len(plan.layers) :
              LET pairs == LayerOpPairs(plan.layers[i])
                  want  == ExpectedLayerOps(plan.layers[i].color_hex, 1)
              IN  [k \in 1..Len(pairs) |-> pairs[k][1]]
                    = [k \in 1..Len(want) |-> want[k][1]]

\* a color that occurs first, a second color, then the first color again
C4_Witness ==
    /\ Planned
    /\ Len(regions) = 3
    /\ regions[1].color_hex = regions[3].color_hex
    /\ regions[1].color_hex # regions[2].color_hex
    /\ regions[1] # regions[3]
    /\ Len(plan.layers) = 2

\* C5: with a preset the planner knows, a fill region gets [underlay, fill,
\* outline] when underlay is enabled (balanced, quality) and its area exceeds
\* 50 mm2 and [fill, outline] otherwise, an outline region [outline], a detail
\* region [fill at 0.8 x the base fill density, outline]; preset fast plans
\* no underlay
C5_RegionOperations ==
    (Planned /\ quality_preset \in QualityPreset) =>
        /\ \A i \in 1..Len(plan.layers) :
              LET pairs == LayerOpPairs(plan.layers[i])
                  want  == ExpectedLayerOps(plan.layers[i].color_hex, 1)
              IN  [k \in 1..Len(pairs) |-> pairs[k][2]]
                    = [k \in 1..Len(want) |-> want[k][2]]
        /\ \A i \in 1..Len(plan.layers) :
              \A k \in 1..Len(plan.layers[i].operations) :
                LET op == plan.layers[i].operations[k]
                IN  (op.region.region_type = "detail" /\ op.stitch_type = "fill")
                      \* 0.8 x 5 x preset multiplier x density scaling
                      => op.density * 1000
                           = ((800 * 5) \div 1000)
                               * PresetMultiplier(quality_preset) * density_multiplier
        /\ quality_preset = "fast" =>
              \A i \in 1..Len(plan.layers) :
                \A k \in 1..Len(plan.layers[i].operations) :
                    plan.layers[i].operations[k].stitch_type # "underlay"

\* a balanced or quality run with a fill above and a fill at the threshold,
\* and a detail region
C5_Witness ==
    /\ Planned
    /\ quality_preset = "quality"
    /\ \E i, j, k \in 1..Len(regions) :
          /\ regions[i].region_type = "fill" /\ regions[i].area_mm2 = 50
          /\ regions[j].region_type = "fill" /\ regions[j].area_mm2 > 50
          /\ regions[k].region_type = "detail"
    /\ \E i \in 1..Len(plan.layers) :
          \E k \in 1..Len(plan.layers[i].operations) :
              plan.layers[i].operations[k].stitch_type = "underlay"

\* C6 as stated: the main fill of a fill region has density = base x preset
\* multiplier, the base being 5 stitches/mm unless the caller supplies a
\* density value (any value but the default 1.0), which then is the base
C6_DensityOverrideIsBase ==
    (Planned /\ quality_preset \in QualityPreset /\ density_multiplier > 0) =>
        \A i \in 1..Len(plan.layers) :
          \A k \in 1..Len(plan.layers[i].operations) :
            LET op   == plan.layers[i].operations[k]
                base == IF density_multiplier = 1000
                        THEN 5000 ELSE density_multiplier
            IN  (op.region.region_type = "fill" /\ op.stitch_type = "fill")
                  => op.density * 1000 = base * PresetMultiplier(quality_preset)

\* C8 as stated (planner part): a zero or negative density scaling is
\* rejected with an input error and no plan is produced
C8_NonPositiveDensityRejected ==
    (Planned /\ density_multiplier <= 0) =>
        (outcome = "InputError" /\ plan.layers = <<>>)

----------------------------------------------------------------------------
(* Properties of the identifier handling, checked under SpecIds *)

Preprocessed == pc \in {"call", "planned"}

\* C7 as stated: an unknown preset identifier, or an unknown hoop identifier,
\* is rejected with an input error and no plan / no result is produced
C7_UnknownIdsRejected ==
    /\ (Planned /\ quality_preset \notin {"fast", "balanced", "quality"}) =>
          (outcome = "InputError" /\ plan.layers = <<>>)
    /\ (Preprocessed /\ hoop_size \notin {"100x100", "70x70"}) =>
          pre.status = "InputError"

\* C7 amended: an unknown preset identifier is planned as preset balanced
\* (multiplier 1.0, underlay enabled) and an unknown hoop identifier is
\* preprocessed as hoop 100x100 (1000 x 1000 px canvas); both calls return
C7_UnknownIdsFallBack ==
    /\ (Planned /\ quality_preset \notin {"fast", "balanced", "quality"}) =>
          /\ outcome = "returned"
          /\ \A i \in 1..Len(plan.layers) :
                /\ LayerOpPairs(plan.layers[i])
                     = ExpectedLayerOps(plan.layers[i].color_hex, 1)
                /\ \A k \in 1..Len(plan.layers[i].operations) :
                     LET op == plan.layers[i].operations[k]
                     IN  (op.region.region_type = "fill" /\ op.stitch_type = "fill")
                           => op.density = 5 * density_multiplier
    /\ (Preprocessed /\ hoop_size \notin {"100x100", "70x70"}) =>
          /\ pre.status = "returned"
          /\ pre.hoop_size = "100x100"
          /\ pre.final_size = <<1000, 1000>>
          /\ pre.safe_area_mm = <<90, 90>>

\* a run with an unknown hoop and an unknown preset that planned an underlay
C7_Witness ==
    /\ Planned
    /\ quality_preset = "turbo"
    /\ hoop_size = "150x150"
    /\ pre.status = "returned"
    /\ \E i \in 1..Len(plan.layers) :
          \E k \in 1..Len(plan.layers[i].operations) :
              plan.layers[i].operations[k].stitch_type = "underlay"

----------------------------------------------------------------------------
(* Claims about the generator, checked under SpecGen *)

Generated == pc = "generated"

\* the points of one layer: the stitches of its operations, in order
RECURSIVE Flatten(_)
Flatten(lists) == IF lists = <<>> THEN <<>> ELSE Head(lists) \o Flatten(Tail(lists))

\* index of the first record of layer l: every earlier layer takes its points
\* and one color change
LayerStart(l) ==
    1 + SumSeq([k \in 1..(l - 1) |-> Len(Flatten(op_stitches[k])) + 1])

\* C9: in the record stream of generate_stitches the records of layer l are its
\* operations' points in order followed by one color change; the first point
\* of a layer is a move and every other point a stitch, also when the layer's
\* first operations yield no stitches; exactly one end record is emitted and it
\* is the last record, after the last layer.
C9_RecordStream ==
    Generated =>
        /\ Len(op_stitches) = Len(plan.layers)
        /\ Len(pattern) = LayerStart(Len(plan.layers) + 1)
        /\ pattern[Len(pattern)].flag = "end"
        /\ \A i \in 1..(Len(pattern) - 1) : pattern[i].flag # "end"
        /\ \A l \in 1..Len(plan.layers) :
              LET pts == Flatten(op_stitches[l])
                  s0  == LayerStart(l)
              IN  /\ \A i \in 1..Len(pts) :
                        /\ pattern[s0 + i - 1].flag = (IF i = 1 THEN "move" ELSE "stitch")
                        /\ pattern[s0 + i - 1].x = pts[i][1]
                        /\ pattern[s0 + i - 1].y = pts[i][2]
                  /\ pattern[s0 + Len(pts)].flag = "color_change"
        /\ \A i \in 1..Len(pattern) :
              pattern[i].flag = "move" =>
                  (i = 1 \/ pattern[i - 1].flag = "color_change")

\* two layers, one of which starts with operations that yield no stitches and
\* still has points
C9_Witness ==
    /\ Generated
    /\ Len(plan.layers) = 2
    /\ \E l \in 1..Len(op_stitches) :
          /\ Len(op_stitches[l]) >= 2
          /\ op_stitches[l][1] = <<>>
          /\ Flatten(op_stitches[l]) # <<>>
          /\ pattern[LayerStart(l)].flag = "move"

\* the resampled sequence S of an outline operation, in embroidery units
Resampled(op) ==
    LET sub == subdivide_contour(ToPoints(op.contour),
                                 Rat(op.stitch_length * GEN_PIXELS_PER_MM, 1000))
    IN  [i \in 1..Len(sub) |-> ToUnits(sub[i], GEN_PIXELS_PER_MM, center_offset)]

\* the outline operations of the plan that have a contour to resample
OutlineOps ==
    { lo \in UNION { { <<l, o>> : o \in 1..Len(plan.layers[l].operations) } :
                      l \in 1..Len(plan.layers) } :
        /\ plan.layers[lo[1]].operations[lo[2]].stitch_type = "outline"
        /\ Len(plan.layers[lo[1]].operations[lo[2]].contour) >= 2 }

\* C10: an outline operation whose contour resamples to the P points of S
\* yields exactly 3P records: S, then S reversed, then S; record 0 of pass 1
\* equals record 0 of pass 3.
C10_BeanStitch ==
    Generated =>
        \A lo \in OutlineOps :
            LET S   == Resampled(plan.layers[lo[1]].operations[lo[2]])
                P   == Len(S)
                out == op_stitches[lo[1]][lo[2]]
            IN  /\ Len(out) = 3 * P
                /\ \A i \in 1..P :
                      /\ out[i] = S[i]
                      /\ out[P + i] = S[P + 1 - i]
                      /\ out[2 * P + i] = S[i]
                /\ out[1] = out[2 * P + 1]

\* an outline whose resampled sequence differs from its reversal
C10_Witness ==
    /\ Generated
    /\ \E lo \in OutlineOps :
          LET S == Resampled(plan.layers[lo[1]].operations[lo[2]])
          IN  /\ Len(S) >= 4
              /\ \E i \in 1..Len(S) : S[i] # S[Len(S) + 1 - i]
              /\ Len(op_stitches[lo[1]][lo[2]]) = 3 * Len(S)

----------------------------------------------------------------------------
(* Operations with a contour too short to stitch, checked under SpecGen *)

\* the operation o of layer l
OpAt(l, o) == plan.layers[l].operations[o]

\* the contour is empty or has too few points for the stitch type
TooShort(op) ==
    IF op.stitch_type \in {"fill", "underlay"} THEN Len(op.contour) < 3
    ELSE op.stitch_type = "outline" /\ Len(op.contour) < 2

\* the operations of the plan, as pairs <<layer, operation>>, whose contour is
\* too short
ShortOps ==
    { lo \in UNION { { <<l, o>> : o \in 1..Len(plan.layers[l].operations) } :
                      l \in 1..Len(plan.layers) } :
        TooShort(OpAt(lo[1], lo[2])) }

\* the number of stitches of the operations of layer l other than operation o
OtherStitches(l, o) ==
    SumSeq([k \in 1..Len(op_stitches[l]) |->
               IF k = o THEN 0 ELSE Len(op_stitches[l][k])])

\* the number of records with the given flag
CountFlag(flag) == Cardinality({ i \in 1..Len(pattern) : pattern[i].flag = flag })

\* C20: an operation whose contour is empty or too short (fewer than 3 points
\* for fill and underlay, fewer than 2 for outline) yields no stitch records
\* and generate_stitches returns; the layer's records are those of its other
\* operations, followed by its color change; every layer, also a later one,
\* has its color change, and the end record closes the pattern.
C20_ShortContourYieldsNothing ==
    Generated =>
        /\ outcome = "returned"
        /\ CountFlag("color_change") = Len(plan.layers)
        /\ CountFlag("end") = 1
        /\ pattern[Len(pattern)].flag = "end"
        /\ \A lo \in ShortOps :
              LET l == lo[1]
                  o == lo[2]
                  n == OtherStitches(l, o)
                  s0 == LayerStart(l)
              IN  /\ op_stitches[l][o] = <<>>
                  /\ \A i \in 0..(n - 1) : pattern[s0 + i].flag \in {"move", "stitch"}
                  /\ pattern[s0 + n].flag = "color_change"
                  /\ \A l2 \in (l + 1)..Len(plan.layers) :
                        /\ LayerStart(l2) > s0 + n
                        /\ pattern[LayerStart(l2 + 1) - 1].flag = "color_change"

\* a fill operation with a contour of one or two points, followed in its
\* layer by an operation that has stitches and by a later layer; and an
\* outline operation with fewer than two points
C20_Witness ==
    /\ Generated
    /\ \E lo \in ShortOps :
          /\ OpAt(lo[1], lo[2]).stitch_type = "fill"
          /\ OpAt(lo[1], lo[2]).contour # <<>>
          /\ \E o2 \in (lo[2] + 1)..Len(op_stitches[lo[1]]) : op_stitches[lo[1]][o2] # <<>>
          /\ lo[1] < Len(plan.layers)
    /\ \E lo \in ShortOps : OpAt(lo[1], lo[2]).stitch_type = "outline"

----------------------------------------------------------------------------
(* Specification SpecShape: one call of classify_region, or one call of      *)
(* create_region_from_contour                                                *)

\* classify_region arguments: values below, at and above each threshold
ClsCompactness == {Rat(99, 1000), Rat(1, 10), Rat(101, 1000), Rat(785, 1000)}
ClsAspectRatio == {Rat(1, 20), Rat(1, 1), Rat(7999, 1000), Rat(8, 1), Rat(8001, 1000),
                   Rat(20, 1)}
ClsArea == {Rat(1, 1), Rat(4999, 1000), Rat(5, 1), Rat(5001, 1000), Rat(20, 1)}

\* a rectangular contour whose corners span w x h pixels
SpanContour(w, h) == RectContour(20, 30, w, h)

\* a 1 mm x 20 mm rectangle at 10 pixels per mm, long side horizontal: as the
\* polygon of its corners, and as the border pixels of a 200 x 10 pixel blob
ThinRectsH == {SpanContour(200, 10), SpanContour(199, 9)}

\* the same rectangle, long side vertical
ThinRectsV == {SpanContour(10, 200), SpanContour(9, 199)}

\* a circle of about 10 mm2 (9.6 and 10.33 mm2) at 10 pixels per mm, as a
\* polygon of 12 edges of integer length
Circles ==
    { << <<20, 0>>, <<28, 0>>, <<36, 6>>, <<42, 14>>, <<42, 22>>, <<36, 30>>,
         <<28, 36>>, <<20, 36>>, <<12, 30>>, <<6, 22>>, <<6, 14>>, <<12, 6>> >>,
      << <<20, 0>>, <<29, 0>>, <<37, 6>>, <<43, 14>>, <<43, 23>>, <<37, 31>>,
         <<29, 37>>, <<20, 37>>, <<12, 31>>, <<6, 23>>, <<6, 14>>, <<12, 6>> >> }

\* contours given to create_region_from_contour
ShapeContours ==
    ThinRectsH \cup ThinRectsV \cup Circles
      \cup { SpanContour(79, 9), SpanContour(9, 79), SpanContour(25, 20),
             SpanContour(20, 20), SpanContour(80, 80), SpanContour(10, 10),
             << <<0, 31>>, <<101, 31>> >> }

ShapeColors == { <<255, 0, 0>>, <<0, 128, 255>> }

InitShape ==
    /\ pc = "start"
    /\ outcome = "none"
    /\ regions = <<>>
    /\ quality_preset = "balanced"
    /\ density_multiplier = 1000
    /\ plan = NewPlan
    /\ validate_out = <<>>
    /\ hoop_size = "100x100"
    /\ image = NoImage
    /\ pre = NoResult
    /\ center_offset = <<0, 0>>
    /\ op_stitches = <<>>
    /\ pattern = <<>>
    /\ has_opencv = TRUE
    /\ use_grabcut = TRUE
    /\ seg = NoSeg
    /\ call_args = NoCall
    /\ call_out = NoCall
    /\ scan = NoScan
    /\ cls_args \in [area_mm2 : ClsArea, perimeter_mm : {Rat(10, 1)},
                     compactness : ClsCompactness, aspect_ratio : ClsAspectRatio]
    /\ cls_out = ""
    /\ contour_in \in [contour : ShapeContours, holes : {<<>>}, color_rgb : ShapeColors]
    /\ region_out = NoRegion
    /\ quantized = <<>>
    /\ min_area_mm2 = MIN_AREA_MM2
    /\ extracted = <<>>

\* cls_out = classify_region(area_mm2, perimeter_mm, compactness, aspect_ratio)
ClassifyRegion ==
    /\ pc = "start"
    /\ cls_out' = classify_region(cls_args.area_mm2, cls_args.perimeter_mm,
                                  cls_args.compactness, cls_args.aspect_ratio)
    /\ pc' = "classified"
    /\ UNCHANGED callVars
    /\ outcome' = "returned"
    /\ UNCHANGED <<regions, quality_preset, density_multiplier, plan, validate_out,
                   cls_args, contour_in, region_out, quantized, min_area_mm2,
                   extracted>>
    /\ UNCHANGED preVars
    /\ UNCHANGED genVars

\* region_out = create_region_from_contour(contour, holes, color_rgb, 10.0)
CreateRegion ==
    /\ pc = "start"
    /\ region_out' = create_region_from_contour(contour_in.contour, contour_in.holes,
                                                contour_in.color_rgb, DEFAULT_PX_PER_MM)
    /\ pc' = "created"
    /\ UNCHANGED callVars
    /\ outcome' = "returned"
    /\ UNCHANGED <<regions, quality_preset, density_multiplier, plan, validate_out,
                   cls_args, cls_out, contour_in, quantized, min_area_mm2, extracted>>
    /\ UNCHANGED preVars
    /\ UNCHANGED genVars

NextShape == ClassifyRegion \/ CreateRegion

SpecShape == InitShape /\ [][NextShape]_vars

----------------------------------------------------------------------------
(* Claims about the shape analyzer, checked under SpecShape *)

\* C11: classify_region returns outline when compactness < 0.1; otherwise
\* outline when aspect ratio > 8; otherwise detail when area < 5 mm2; otherwise
\* fill.  Compactness exactly 0.1, aspect ratio exactly 8 and area exactly
\* 5 mm2 fall through to the next rule.
C11_ClassifyRegion ==
    pc = "classified" =>
        LET c == cls_args.compactness
            r == cls_args.aspect_ratio
            a == cls_args.area_mm2
        IN  cls_out = (IF 10 * c[1] < c[2] THEN "outline"
                       ELSE IF r[1] > 8 * r[2] THEN "outline"
                       ELSE IF a[1] < 5 * a[2] THEN "detail"
                       ELSE "fill")

\* all three arguments at their thresholds: the region is a fill
C11_Witness ==
    /\ pc = "classified"
    /\ cls_args.compactness = Rat(1, 10)
    /\ cls_args.aspect_ratio = Rat(8, 1)
    /\ cls_args.area_mm2 = Rat(5, 1)
    /\ cls_out = "fill"

\* C12 as stated: a 1 mm x 20 mm rectangle becomes an outline region whichever
\* of its sides is horizontal, and a circle of area 10 mm2 becomes a fill region
C12_ThinRectangleIsOutline ==
    pc = "created" =>
        /\ contour_in.contour \in ThinRectsH \cup ThinRectsV
              => region_out.region_type = "outline"
        /\ contour_in.contour \in Circles => region_out.region_type = "fill"

----------------------------------------------------------------------------
(* Specification SpecExtract: one call of extract_regions *)

\* most colors of a palette
MaxPaletteColors == 2

\* a solid block of w x h pixels at (x, y): the contour runs through the
\* centers of its corner pixels
Blob(x, y, w, h) ==
    [ outer  |-> << <<x, y>>, <<x, y + h - 1>>, <<x + w - 1, y + h - 1>>, <<x + w - 1, y>> >>,
      holes  |-> <<>>,
      pixels |-> w * h ]

\* three rows of pixels, the middle one a pixel longer at both ends: rows of
\* w, w + 2 and w pixels
Lens(x, y, w) ==
    [ outer  |-> << <<x + 1, y>>, <<x, y + 1>>, <<x + 1, y + 2>>, <<x + w, y + 2>>,
                    <<x + w + 1, y + 1>>, <<x + w, y>> >>,
      holes  |-> <<>>,
      pixels |-> 3 * w + 2 ]

\* the contour of a hole of hw x hh pixels at (hx, hy): it runs through the
\* pixels around the hole
HoleContour(hx, hy, hw, hh) ==
    IF hh = 1
    THEN << <<hx, hy - 1>>, <<hx - 1, hy>>, <<hx, hy + 1>>, <<hx + hw - 1, hy + 1>>,
            <<hx + hw, hy>>, <<hx + hw - 1, hy - 1>> >>
    ELSE << <<hx, hy - 1>>, <<hx - 1, hy>>, <<hx - 1, hy + hh - 1>>, <<hx, hy + hh>>,
            <<hx + hw - 1, hy + hh>>, <<hx + hw, hy + hh - 1>>, <<hx + hw, hy>>,
            <<hx + hw - 1, hy - 1>> >>

\* a block with one rectangular hole
BlobWithHole(x, y, w, h, hx, hy, hw, hh) ==
    [ outer  |-> Blob(x, y, w, h).outer,
      holes  |-> <<HoleContour(hx, hy, hw, hh)>>,
      pixels |-> w * h - hw * hh ]

ColorLayer(color_rgb, components) == [color_rgb |-> color_rgb, components |-> components]

\* The color layers an image is made of; no two share a pixel.  A large square
\* with a square hole; a sliver of three rows; a small rectangle; a smaller
\* one; a near-white square; a block with a hole one pixel high, and a small
\* square that lies in the hole of the large square; a dot of 8 x 8 pixels; a
\* white square.
LayerPool ==
    { ColorLayer(<<255, 0, 0>>, <<BlobWithHole(100, 100, 80, 80, 120, 120, 30, 30)>>),
      ColorLayer(<<0, 255, 0>>, <<Lens(10, 300, 100)>>),
      ColorLayer(<<0, 0, 255>>, <<Blob(300, 100, 30, 20)>>),
      ColorLayer(<<10, 10, 10>>, <<Blob(400, 400, 20, 15)>>),
      ColorLayer(<<250, 250, 255>>, <<Blob(500, 100, 50, 50)>>),
      ColorLayer(<<200, 0, 0>>, <<BlobWithHole(200, 200, 100, 60, 220, 230, 60, 1),
                                  Blob(125, 125, 20, 20)>>),
      ColorLayer(<<0, 128, 128>>, <<Blob(600, 600, 8, 8)>>),
      ColorLayer(<<255, 255, 255>>, <<Blob(0, 0, 50, 50)>>) }

\* the palettes: lists of different layers
Palettes ==
    { p \in SeqsUpTo(LayerPool, MaxPaletteColors) :
        \A i, j \in 1..Len(p) : i # j => p[i] # p[j] }

\* min_area_mm2 values: the default, a larger one and a quarter of a mm2
MinAreas == {MIN_AREA_MM2, Rat(5, 1), Rat(1, 4)}

InitExtract ==
    /\ pc = "start"
    /\ outcome = "none"
    /\ regions = <<>>
    /\ quality_preset = "balanced"
    /\ density_multiplier = 1000
    /\ plan = NewPlan
    /\ validate_out = <<>>
    /\ hoop_size = "100x100"
    /\ image = NoImage
    /\ pre = NoResult
    /\ center_offset = <<0, 0>>
    /\ op_stitches = <<>>
    /\ pattern = <<>>
    /\ has_opencv \in BOOLEAN
    /\ use_grabcut = TRUE
    /\ seg = NoSeg
    /\ call_args = NoCall
    /\ call_out = NoCall
    /\ scan = NoScan
    /\ cls_args = NoArgs
    /\ cls_out = ""
    /\ contour_in = <<>>
    /\ region_out = NoRegion
    /\ quantized \in Palettes
    /\ min_area_mm2 \in MinAreas
    /\ extracted = <<>>

\* extracted = extract_regions(quantized_image, color_palette, min_area_mm2=min_area_mm2)
ExtractRegions ==
    /\ pc = "start"
    /\ extracted' = extract_regions(quantized, min_area_mm2, has_opencv)
    /\ pc' = "extracted"
    /\ UNCHANGED callVars
    /\ outcome' = "returned"
    /\ UNCHANGED <<regions, quality_preset, density_multiplier, plan, validate_out,
                   cls_args, cls_out, contour_in, region_out, quantized, min_area_mm2>>
    /\ UNCHANGED preVars
    /\ UNCHANGED genVars

NextExtract == ExtractRegions

SpecExtract == InitExtract /\ [][NextExtract]_vars

----------------------------------------------------------------------------
(* Claims about extract_regions, checked under SpecExtract *)

Extracted == pc = "extracted"

\* C13 as stated: every returned region has a stored area of at least the
\* configured min_area_mm2, on the precise path and on the fallback path
C13_AreaAtLeastMinimum ==
    Extracted =>
        \A i \in 1..Len(extracted) : RLe(min_area_mm2, extracted[i].area_mm2)

\* C14 as stated: every outer contour and every hole contour stored on a
\* returned region has at least 3 vertices
C14_ContoursHaveThreeVertices ==
    Extracted =>
        \A i \in 1..Len(extracted) :
            /\ \A k \in 1..Len(extracted[i].contours) : Len(extracted[i].contours[k]) >= 3
            /\ \A k \in 1..Len(extracted[i].holes) : Len(extracted[i].holes[k]) >= 3

\* C15 as stated: the returned list is sorted by area, largest first, on the
\* precise path and on the fallback path
C15_SortedByArea ==
    Extracted =>
        \A i \in 1..(Len(extracted) - 1) :
            RLe(extracted[i + 1].area_mm2, extracted[i].area_mm2)

\* C25 as stated: whatever min_area_mm2, no returned region comes from a
\* contour whose perimeter is below MIN_PERIMETER_MM = 3 mm
C25_PerimeterAtLeastThree ==
    Extracted =>
        \A i \in 1..Len(extracted) : RLe(MIN_PERIMETER_MM, extracted[i].perimeter_mm)

----------------------------------------------------------------------------
(* Specification SpecPre: one call of preprocess_for_embroidery with its     *)
(* default safe_margin_mm                                                    *)

\* sizes of the images: a small one, a wide one, a tall one, one that fits
\* the large hoop only, a large one
ImageSizes == { <<200, 200>>, <<1200, 600>>, <<340, 740>>, <<640, 480>>, <<2000, 1500>> }

\* a mask whose foreground is the image without a border of 30 pixels
InsetMask(w, h) == Mask(<<30, 30, w - 60, h - 60>>, (w - 60) * (h - 60), 100)

\* a mask whose foreground is a block in the middle, a sixty-fourth of the image
SpotMask(w, h) ==
    Mask(<<w \div 2, h \div 2, w \div 8, h \div 8>>, (w \div 8) * (h \div 8),
         (w * h) \div 2)

\* masks a segmentation may return for an image of w x h pixels
MasksOf(w, h) ==
    { FullMask(w, h), InsetMask(w, h), SpotMask(w, h), EmptyMask((w * h) \div 2) }

\* what cv2.grabCut may make of an image of w x h pixels
GrabCutOutcomes(w, h) == { GrabCutMask(m) : m \in MasksOf(w, h) } \cup {GrabCutRaises}

\* what the threshold may make of it
ThresholdMasks(w, h) == { FullMask(w, h), InsetMask(w, h), EmptyMask((w * h) \div 2) }

\* the images: every size with every outcome of cv2.grabCut and of the threshold
PreImages ==
    UNION { { Image(sz[1], sz[2], g, t) :
                g \in GrabCutOutcomes(sz[1], sz[2]), t \in ThresholdMasks(sz[1], sz[2]) } :
            sz \in ImageSizes }

InitPre ==
    /\ pc = "start"
    /\ outcome = "none"
    /\ regions = <<>>
    /\ quality_preset = "balanced"
    /\ density_multiplier = 1000
    /\ plan = NewPlan
    /\ validate_out = <<>>
    /\ hoop_size \in HoopIds
    /\ image \in PreImages
    /\ pre = NoResult
    /\ center_offset = <<0, 0>>
    /\ op_stitches = <<>>
    /\ pattern = <<>>
    /\ has_opencv \in BOOLEAN
    /\ use_grabcut \in BOOLEAN
    /\ seg = NoSeg
    /\ call_args = NoCall
    /\ call_out = NoCall
    /\ scan = NoScan
    /\ cls_args = NoArgs
    /\ cls_out = ""
    /\ contour_in = <<>>
    /\ region_out = NoRegion
    /\ quantized = <<>>
    /\ min_area_mm2 = MIN_AREA_MM2
    /\ extracted = <<>>

NextPre == Preprocess

SpecPre == InitPre /\ [][NextPre]_vars

----------------------------------------------------------------------------
(* Claims about the preprocessor, checked under SpecPre *)

PreReturned == pc = "call" /\ pre.status = "returned"

\* the safe area in pixels at 10 px/mm
SafeAreaPx == <<pre.safe_area_mm[1] * DEFAULT_PX_PER_MM, pre.safe_area_mm[2] * DEFAULT_PX_PER_MM>>

\* C16 as stated: the resized image is no wider and no higher than the image
\* that was resized, it fits inside the safe area at 10 px/mm, its aspect ratio
\* is the input's up to integer truncation, and an input that already fits the
\* safe area keeps its size
C16_NeverUpscales ==
    PreReturned =>
        LET w  == seg.cropped_size[1]
            h  == seg.cropped_size[2]
            nw == pre.resized_size[1]
            nh == pre.resized_size[2]
        IN  /\ nw <= w /\ nh <= h
            /\ nw <= SafeAreaPx[1] /\ nh <= SafeAreaPx[2]
            /\ Abs(nw * h - nh * w) <= Max(w, h)
            /\ (w <= SafeAreaPx[1] /\ h <= SafeAreaPx[2]) => (nw = w /\ nh = h)

\* C17 as stated: with default arguments the reported safe area is 90 x 90 mm
\* on a canvas of 1000 x 1000 px for hoop 100x100, and 62 x 62 mm on a canvas of
\* 700 x 700 px for hoop 70x70
C17_SafeAreaOfHoops ==
    (PreReturned /\ use_grabcut) =>
        /\ hoop_size = "100x100" =>
               pre.safe_area_mm = <<90, 90>> /\ pre.final_size = <<1000, 1000>>
        /\ hoop_size = "70x70" =>
               pre.safe_area_mm = <<62, 62>> /\ pre.final_size = <<700, 700>>

\* C18 as stated: when the segmentation yields a mask with no foreground pixel,
\* the call returns, no pixel of the image is changed and every pixel of the
\* mask carried on is foreground
C18_EmptyMaskCarriesOn ==
    (pc = "call" /\ seg.mask_pixels = 0) =>
        /\ pre.status = "returned"
        /\ seg.whitened = 0
        /\ seg.cropped_size = <<image.w, image.h>>
        /\ seg.cropped_pixels = image.w * image.h

\* the primary segmentation ran and returned a mask
PrimaryRan == use_grabcut /\ has_opencv /\ ~image.grabcut.raises

\* the primary segmentation's foreground covers less than 5% or more than 95%
\* of the image
PrimaryOutOfRange ==
    LET n == image.grabcut.mask.mask_pixels
        all == image.w * image.h
    IN  20 * n < all \/ 20 * n > 19 * all

\* C19 as stated: a primary mask covering less than 5% or more than 95% of the
\* image is replaced by the fallback segmentation's, and method_used names the
\* method whose mask is used
C19_CoverageFallback ==
    PreReturned =>
        /\ (PrimaryRan /\ PrimaryOutOfRange) =>
               /\ pre.method_used = "threshold"
               /\ seg.mask_pixels = image.threshold.mask_pixels
               /\ seg.mask_rect = image.threshold.mask_rect
        /\ pre.method_used = "grabcut" =>
               (PrimaryRan /\ seg.mask_rect = image.grabcut.mask.mask_rect)
        /\ pre.method_used = "threshold" =>
               seg.mask_rect = image.threshold.mask_rect

----------------------------------------------------------------------------
(* Specification SpecLine: one call of generate_line_stitches for a span of   *)
(* a scanline                                                                 *)

\* where spans start, in pixels
SpanStarts == { RInt(0), Rat(5, 2), RInt(100) }

\* span lengths, in pixels: none, shorter than half a stitch, between half a
\* stitch and a stitch, whole numbers of stitches and lengths in between
SpanLengths ==
    { RInt(0), Rat(1, 2), RInt(1), Rat(3, 2), RInt(5), RInt(10), RInt(20), RInt(25),
      RInt(30), Rat(75, 2), RInt(40), RInt(50), RInt(79), RInt(80) }

\* stitch lengths in pixels: 2 mm at 10 px/mm, and others
StitchLengthsPx == { RInt(20), RInt(10), Rat(5, 2) }

\* the arguments of a call of generate_line_stitches on a scanline y
LineCalls ==
    { [fn |-> "generate_line_stitches", x1 |-> x1, y1 |-> RInt(7), x2 |-> RAdd(x1, len),
       y2 |-> RInt(7), stitch_length_px |-> sl, direction |-> dir] :
        x1 \in SpanStarts, len \in SpanLengths, sl \in StitchLengthsPx, dir \in {1, -1} }

InitLine ==
    /\ pc = "start"
    /\ outcome = "none"
    /\ regions = <<>>
    /\ quality_preset = "balanced"
    /\ density_multiplier = 1000
    /\ plan = NewPlan
    /\ validate_out = <<>>
    /\ hoop_size = "100x100"
    /\ image = NoImage
    /\ pre = NoResult
    /\ center_offset = <<0, 0>>
    /\ op_stitches = <<>>
    /\ pattern = <<>>
    /\ has_opencv = TRUE
    /\ use_grabcut = TRUE
    /\ seg = NoSeg
    /\ call_args \in LineCalls
    /\ call_out = NoCall
    /\ scan = NoScan
    /\ cls_args = NoArgs
    /\ cls_out = ""
    /\ contour_in = <<>>
    /\ region_out = NoRegion
    /\ quantized = <<>>
    /\ min_area_mm2 = MIN_AREA_MM2
    /\ extracted = <<>>

\* the variables no function called on its own touches
restVars ==
    <<outcome, regions, quality_preset, density_multiplier, plan, validate_out>>

\* call_out = generate_line_stitches(x1, y1, x2, y2, stitch_length_px, direction)
GenerateLineStitches ==
    /\ pc = "start"
    /\ call_args.fn = "generate_line_stitches"
    /\ call_out' = generate_line_stitches(call_args.x1, call_args.y1, call_args.x2,
                                          call_args.y2, call_args.stitch_length_px,
                                          call_args.direction)
    /\ pc' = "returned"
    /\ UNCHANGED <<call_args, scan>>
    /\ UNCHANGED restVars
    /\ UNCHANGED preVars
    /\ UNCHANGED genVars
    /\ UNCHANGED shapeVars

NextLine == GenerateLineStitches

SpecLine == InitLine /\ [][NextLine]_vars

\* the call of generate_line_stitches has returned
LineReturned == pc = "returned" /\ call_args.fn = "generate_line_stitches"

\* C21 as stated: any two consecutive points of the span are at most the
\* stitch length apart, and the first and the last point are the span's two
\* endpoints
C21_StitchesWithinLength ==
    LineReturned =>
        LET n == Len(call_out)
            ends == { <<call_args.x1, call_args.y1>>, <<call_args.x2, call_args.y2>> }
        IN  /\ n >= 2
            /\ {call_out[1], call_out[n]} = ends
            /\ \A i \in 1..(n - 1) :
                  RLe(RAbs(RSub(call_out[i + 1][1], call_out[i][1])),
                      call_args.stitch_length_px)

----------------------------------------------------------------------------
(* Specification SpecFill: one call of generate_fill_stitches                *)

\* contours in pixels at 10 px/mm: a square of 20 mm, a rectangle, a U with
\* two arms, a triangle
FillContours ==
    { RectContour(100, 100, 200, 200),
      RectContour(40, 20, 60, 20),
      << <<0, 0>>, <<90, 0>>, <<90, 60>>, <<60, 60>>, <<60, 20>>, <<30, 20>>,
         <<30, 60>>, <<0, 60>> >>,
      << <<0, 0>>, <<80, 0>>, <<40, 60>> >> }

\* stitch angles in degrees
FillAngles == {0, 90}

\* densities in thousandths of stitches per mm: the default, preset fast and
\* the underlay's
FillDensities == {5000, 4000, 2500}

\* stitch lengths in thousandths of mm
FillStitchLengths == {2000, 1000, 3500}

FillCalls ==
    { [fn |-> "generate_fill_stitches", contour |-> c, angle |-> a, density |-> d,
       stitch_length |-> sl, pixels_per_mm |-> GEN_PIXELS_PER_MM,
       center_offset |-> <<0, 0>>] :
        c \in FillContours, a \in FillAngles, d \in FillDensities,
        sl \in FillStitchLengths }

InitFill ==
    /\ pc = "start"
    /\ outcome = "none"
    /\ regions = <<>>
    /\ quality_preset = "balanced"
    /\ density_multiplier = 1000
    /\ plan = NewPlan
    /\ validate_out = <<>>
    /\ hoop_size = "100x100"
    /\ image = NoImage
    /\ pre = NoResult
    /\ center_offset = <<0, 0>>
    /\ op_stitches = <<>>
    /\ pattern = <<>>
    /\ has_opencv = TRUE
    /\ use_grabcut = TRUE
    /\ seg = NoSeg
    /\ call_args \in FillCalls
    /\ call_out = NoCall
    /\ scan = NoScan
    /\ cls_args = NoArgs
    /\ cls_out = ""
    /\ contour_in = <<>>
    /\ region_out = NoRegion
    /\ quantized = <<>>
    /\ min_area_mm2 = MIN_AREA_MM2
    /\ extracted = <<>>

\* call_out = generate_fill_stitches(contour, angle, density, stitch_length,
\* pixels_per_mm, center_offset), with the passes of its scan loop
GenerateFillStitches ==
    /\ pc = "start"
    /\ call_args.fn = "generate_fill_stitches"
    /\ call_out' =
          [ rows     |-> FillRows(call_args.contour, call_args.angle, call_args.density,
                                  call_args.stitch_length, call_args.pixels_per_mm),
            stitches |-> generate_fill_stitches(call_args.contour, call_args.angle,
                                                call_args.density,
                                                call_args.stitch_length,
                                                call_args.pixels_per_mm,
                                                call_args.center_offset) ]
    /\ pc' = "returned"
    /\ UNCHANGED <<call_args, scan>>
    /\ UNCHANGED restVars
    /\ UNCHANGED preVars
    /\ UNCHANGED genVars
    /\ UNCHANGED shapeVars

NextFill == GenerateFillStitches

SpecFill == InitFill /\ [][NextFill]_vars

\* the call of generate_fill_stitches has returned
FillReturned == pc = "returned" /\ call_args.fn = "generate_fill_stitches"

\* the x coordinates of the stitches of a pass are in the order of its direction
Monotone(row) ==
    \A i \in 1..(Len(row.stitches) - 1) :
        IF row.direction > 0
        THEN RLe(row.stitches[i][1], row.stitches[i + 1][1])
        ELSE RLe(row.stitches[i + 1][1], row.stitches[i][1])

\* C22 as stated: consecutive scanlines have opposite directions, and on every
\* scanline the stitch points are in monotone x order in the rotated frame:
\* increasing from left to right, decreasing from right to left, also on a
\* scanline with more than one span
C22_AlternatingMonotoneRows ==
    FillReturned =>
        /\ \A r \in 1..(Len(call_out.rows) - 1) :
              call_out.rows[r + 1].direction = -call_out.rows[r].direction
        /\ \A r \in 1..Len(call_out.rows) : Monotone(call_out.rows[r])

\* the contour of the call, rotated as generate_fill_stitches rotates it
RotatedContour ==
    LET points == ToPoints(call_args.contour)
    IN  rotate_points(points, MeanPoint(points), -call_args.angle)

\* the extent of the contour perpendicular to the stitch angle, in pixels
ExtentPx ==
    LET ys == [i \in 1..Len(RotatedContour) |-> RotatedContour[i][2]]
    IN  RSub(RMaxSeq(ys), RMinSeq(ys))

\* floor(H x density) for the extent H in mm and the density in stitches per mm
ExpectedRows ==
    RTrunc(RDiv(RMul(ExtentPx, RInt(call_args.density)),
                RInt(call_args.pixels_per_mm * 1000)))

\* a pixel coordinate in embroidery units
PxToUnits(v) == RDiv(RMul(RInt(v), RInt(UNITS_PER_MM)), RInt(call_args.pixels_per_mm))

\* the stitch length in embroidery units
StitchLengthUnits == Rat(call_args.stitch_length * UNITS_PER_MM, 1000)

\* the coordinates k (1 for x, 2 for y) of the contour's vertices
ContourCoords(k) == [i \in 1..Len(call_args.contour) |-> call_args.contour[i][k]]

\* the point lies in the contour's bounding box widened by one stitch length
InWidenedBox(pt) ==
    \A k \in {1, 2} :
        /\ RLe(RSub(PxToUnits(MinSeq(ContourCoords(k))), StitchLengthUnits), RInt(pt[k]))
        /\ RLe(RInt(pt[k]), RAdd(PxToUnits(MaxSeq(ContourCoords(k))), StitchLengthUnits))

\* C24: for a polygon of extent H mm perpendicular to the stitch angle the scan
\* loop makes floor(H x density) - 1 to floor(H x density) + 1 passes, consecutive
\* scanlines are 1/density mm apart, and every stitch point returned lies in
\* the polygon's bounding box widened by one stitch length; the square of 20 mm
\* at density 5 and angle 0 has 99 to 101 scanlines.
C24_ScanlineCountAndBox ==
    FillReturned =>
        /\ Len(call_out.rows) >= ExpectedRows - 1
        /\ Len(call_out.rows) <= ExpectedRows + 1
        /\ \A r \in 1..(Len(call_out.rows) - 1) :
              RSub(call_out.rows[r + 1].y, call_out.rows[r].y)
                  = Rat(call_args.pixels_per_mm * 1000, call_args.density)
        /\ \A i \in 1..Len(call_out.stitches) : InWidenedBox(call_out.stitches[i])
        /\ (/\ call_args.contour = RectContour(100, 100, 200, 200)
            /\ call_args.density = 5000
            /\ call_args.angle = 0) => Len(call_out.rows) \in 99..101

\* the square of 20 mm at density 5 and angle 0 has been stitched: 100 scanlines
C24_Witness ==
    /\ FillReturned
    /\ call_args.contour = RectContour(100, 100, 200, 200)
    /\ call_args.density = 5000
    /\ call_args.angle = 0
    /\ ExpectedRows = 100
    /\ Len(call_out.rows) = 100
    /\ Len(call_out.stitches) > 200

----------------------------------------------------------------------------
(* Specification SpecHoles: regions that own holes are planned, then         *)
(* generate_stitches turns the plan into the pattern's records               *)

\* a Region with interior holes
RegionWithHoles(c, t, a, p, ang, cs, hs) ==
    [color_hex |-> c, region_type |-> t, area_mm2 |-> a, perimeter_mm |-> p,
     principal_angle |-> ang, contours |-> cs, holes |-> hs]

\* squares of 8 mm with one hole in the middle, with two holes, with a hole
\* near a corner, and without a hole; the area is the outer contour's
HoleRegionPool ==
    { RegionWithHoles("#FF0000", "fill", 64, 32, 0, <<RectContour(100, 100, 80, 80)>>,
                      <<RectContour(120, 120, 30, 30)>>),
      RegionWithHoles("#00FF00", "fill", 64, 32, 0, <<RectContour(100, 100, 80, 80)>>,
                      <<RectContour(110, 110, 20, 20), RectContour(140, 140, 30, 30)>>),
      RegionWithHoles("#0000FF", "fill", 64, 32, 0, <<RectContour(100, 100, 80, 80)>>,
                      <<RectContour(105, 105, 25, 25)>>),
      RegionWithHoles("#FF0000", "fill", 64, 32, 0, <<RectContour(100, 100, 80, 80)>>,
                      <<>>) }

InitHoles ==
    /\ pc = "call"
    /\ outcome = "none"
    /\ regions \in SeqsUpTo(HoleRegionPool, MaxGenRegions)
    /\ quality_preset \in GenPresetIds
    /\ density_multiplier = 1000
    /\ plan = NewPlan
    /\ validate_out = <<>>
    /\ hoop_size = "100x100"
    /\ image = NoImage
    /\ pre = NoResult
    /\ center_offset \in CenterOffsets
    /\ op_stitches = <<>>
    /\ pattern = <<>>
    /\ has_opencv = TRUE
    /\ use_grabcut = TRUE
    /\ seg = NoSeg
    /\ call_args = NoCall
    /\ call_out = NoCall
    /\ scan = NoScan
    /\ cls_args = NoArgs
    /\ cls_out = ""
    /\ contour_in = <<>>
    /\ region_out = NoRegion
    /\ quantized = <<>>
    /\ min_area_mm2 = MIN_AREA_MM2
    /\ extracted = <<>>

SpecHoles == InitHoles /\ [][NextGen]_vars

\* the pixel coordinate v of axis k in embroidery units, as a rational
HoleUnits(v, k) ==
    RDiv(RMul(RInt(v - center_offset[k]), RInt(UNITS_PER_MM)), RInt(GEN_PIXELS_PER_MM))

\* the stitch point lies strictly inside the bounding box of the hole, which
\* for the rectangular holes of HoleRegionPool is the hole
InsideHole(pt, hole) ==
    \A k \in {1, 2} :
        LET vs == [i \in 1..Len(hole) |-> hole[i][k]]
        IN  /\ RLt(HoleUnits(MinSeq(vs), k), RInt(pt[k]))
            /\ RLt(RInt(pt[k]), HoleUnits(MaxSeq(vs), k))

\* C23 as stated: the fill and underlay operations of a region that owns holes
\* keep out of the holes: no stitch point of theirs lies inside a hole
C23_FillKeepsOutOfHoles ==
    Generated =>
        \A l \in 1..Len(plan.layers) :
            \A o \in 1..Len(plan.layers[l].operations) :
                LET op == plan.layers[l].operations[o]
                IN  op.stitch_type \in {"fill", "underlay"} =>
                        \A h \in 1..Len(op.region.holes) :
                            \A i \in 1..Len(op_stitches[l][o]) :
                                ~InsideHole(op_stitches[l][o][i], op.region.holes[h])

----------------------------------------------------------------------------
(* Specification SpecSub: one call of subdivide_contour                      *)

\* closed contours with axis-parallel edges, in pixels: rectangles and an L
SubContours ==
    { RectContour(0, 0, 80, 80), RectContour(100, 100, 80, 80),
      RectContour(200, 50, 60, 20), RectContour(10, 10, 20, 20),
      RectContour(0, 0, 200, 10), RectContour(0, 0, 10, 200),
      RectContour(5, 5, 100, 50), RectContour(0, 0, 30, 40),
      RectContour(0, 0, 7, 9), RectContour(50, 50, 120, 120),
      << <<0, 0>>, <<60, 0>>, <<60, 20>>, <<20, 20>>, <<20, 60>>, <<0, 60>> >>,
      << <<0, 31>>, <<101, 31>> >> }

\* target lengths in pixels: the stitch length of 2 mm at 10 px/mm, and others
SubTargets == { RInt(20), RInt(10), RInt(35), Rat(25, 2), RInt(50) }

SubCalls ==
    { [fn |-> "subdivide_contour", points |-> ToPoints(c), target_length |-> t] :
        c \in SubContours, t \in SubTargets }

InitSub ==
    /\ pc = "start"
    /\ outcome = "none"
    /\ regions = <<>>
    /\ quality_preset = "balanced"
    /\ density_multiplier = 1000
    /\ plan = NewPlan
    /\ validate_out = <<>>
    /\ hoop_size = "100x100"
    /\ image = NoImage
    /\ pre = NoResult
    /\ center_offset = <<0, 0>>
    /\ op_stitches = <<>>
    /\ pattern = <<>>
    /\ has_opencv = TRUE
    /\ use_grabcut = TRUE
    /\ seg = NoSeg
    /\ call_args \in SubCalls
    /\ call_out = NoCall
    /\ scan = NoScan
    /\ cls_args = NoArgs
    /\ cls_out = ""
    /\ contour_in = <<>>
    /\ region_out = NoRegion
    /\ quantized = <<>>
    /\ min_area_mm2 = MIN_AREA_MM2
    /\ extracted = <<>>

\* call_out = subdivide_contour(points, target_length)
SubdivideContour ==
    /\ pc = "start"
    /\ call_args.fn = "subdivide_contour"
    /\ call_out' = subdivide_contour(call_args.points, call_args.target_length)
    /\ pc' = "returned"
    /\ UNCHANGED <<call_args, scan>>
    /\ UNCHANGED restVars
    /\ UNCHANGED preVars
    /\ UNCHANGED genVars
    /\ UNCHANGED shapeVars

NextSub == SubdivideContour

SpecSub == InitSub /\ [][NextSub]_vars

\* the call of subdivide_contour has returned
SubReturned == pc = "returned" /\ call_args.fn = "subdivide_contour"

\* target_spacing = perimeter / num_points of the call
SubSpacing ==
    LET perimeter == Perimeter(call_args.points, 1)
    IN  RDiv(perimeter,
             RInt(Max(3, RTrunc(RDiv(perimeter, call_args.target_length)))))

\* C27 as stated, for contours with axis-parallel edges: no two consecutive
\* returned points coincide, and no two consecutive returned points are more
\* than one spacing apart (their distance along the axes is at most the arc
\* length between them, so a larger distance is a larger gap)
C27_EvenResampling ==
    SubReturned =>
        \A i \in 1..(Len(call_out) - 1) :
            /\ call_out[i] # call_out[i + 1]
            /\ RLe(SegLen(call_out[i], call_out[i + 1]), SubSpacing)

----------------------------------------------------------------------------
(* Specification SpecFilter: one call of filter_overlapping_regions          *)

MaxFilterRegions == 3

\* a region as far as filter_overlapping_regions reads it
BoxRegion(color_hex, area, box) ==
    [color_hex |-> color_hex, area_mm2 |-> RInt(area), bounding_box |-> box]

\* A large square and a second one of the same area and box; regions whose
\* boxes lie 100 %, 82 %, exactly 80 %, 78 % and 60 % inside the large
\* square's box; a region with an empty box; one far away.
FilterRegionPool ==
    { BoxRegion("#A00000", 100, <<0, 0, 100, 100>>),
      BoxRegion("#00A000", 100, <<0, 0, 100, 100>>),
      BoxRegion("#0000A0", 10, <<10, 10, 20, 20>>),
      BoxRegion("#A0A000", 4, <<59, 10, 50, 10>>),
      BoxRegion("#00A0A0", 10, <<60, 10, 50, 10>>),
      BoxRegion("#A000A0", 3, <<61, 10, 50, 10>>),
      BoxRegion("#505050", 5, <<70, 50, 50, 10>>),
      BoxRegion("#101010", 2, <<10, 10, 0, 5>>),
      BoxRegion("#202020", 20, <<300, 300, 40, 40>>) }

FilterCalls ==
    { [fn |-> "filter_overlapping_regions", regions |-> rs] :
        rs \in { q \in SeqsUpTo(FilterRegionPool, MaxFilterRegions) :
                    \A i, j \in 1..Len(q) : i # j => q[i] # q[j] } }

InitFilter ==
    /\ pc = "start"
    /\ outcome = "none"
    /\ regions = <<>>
    /\ quality_preset = "balanced"
    /\ density_multiplier = 1000
    /\ plan = NewPlan
    /\ validate_out = <<>>
    /\ hoop_size = "100x100"
    /\ image = NoImage
    /\ pre = NoResult
    /\ center_offset = <<0, 0>>
    /\ op_stitches = <<>>
    /\ pattern = <<>>
    /\ has_opencv = TRUE
    /\ use_grabcut = TRUE
    /\ seg = NoSeg
    /\ call_args \in FilterCalls
    /\ call_out = NoCall
    /\ scan = NoScan
    /\ cls_args = NoArgs
    /\ cls_out = ""
    /\ contour_in = <<>>
    /\ region_out = NoRegion
    /\ quantized = <<>>
    /\ min_area_mm2 = MIN_AREA_MM2
    /\ extracted = <<>>

\* call_out = filter_overlapping_regions(regions, pixels_per_mm)
FilterOverlappingRegions ==
    /\ pc = "start"
    /\ call_args.fn = "filter_overlapping_regions"
    /\ call_out' = filter_overlapping_regions(call_args.regions)
    /\ pc' = "returned"
    /\ UNCHANGED <<call_args, scan>>
    /\ UNCHANGED restVars
    /\ UNCHANGED preVars
    /\ UNCHANGED genVars
    /\ UNCHANGED shapeVars

NextFilter == FilterOverlappingRegions

SpecFilter == InitFilter /\ [][NextFilter]_vars

\* the call of filter_overlapping_regions has returned
FilterReturned == pc = "returned" /\ call_args.fn = "filter_overlapping_regions"

\* the area of a box and of the part of box r that lies inside box o
BoxArea(r) == r[3] * r[4]

BoxInside(r, o) ==
    Max(0, Min(r[1] + r[3], o[1] + o[3]) - Max(r[1], o[1]))
        * Max(0, Min(r[2] + r[4], o[2] + o[4]) - Max(r[2], o[2]))

\* other is strictly larger than region
StrictlyLarger(other, region) == RLt(region.area_mm2, other.area_mm2)

\* more than 80 % of the box of region lies inside the box of a strictly
\* larger region of the list rs
MostlyInsideLarger(region, rs) ==
    \E j \in 1..Len(rs) :
        /\ StrictlyLarger(rs[j], region)
        /\ 10 * BoxInside(region.bounding_box, rs[j].bounding_box)
               > 8 * BoxArea(region.bounding_box)

\* at least 80 % of the box of region, which is not empty, lies inside the box
\* of a strictly larger region of the list rs
AtLeastInsideLarger(region, rs) ==
    \E j \in 1..Len(rs) :
        /\ StrictlyLarger(rs[j], region)
        /\ BoxArea(region.bounding_box) > 0
        /\ 10 * BoxInside(region.bounding_box, rs[j].bounding_box)
               >= 8 * BoxArea(region.bounding_box)

\* no region of the list rs is strictly larger than region
IsLargest(region, rs) == \A j \in 1..Len(rs) : ~StrictlyLarger(rs[j], region)

\* C26, amended: filter_overlapping_regions removes a region exactly when MORE
\* than 80 % of its bounding-box area lies inside the bounding box of some
\* strictly larger region (a region at exactly 80 % is kept); it keeps the
\* others in their original order, and a largest region is never removed
C26_RemovesAboveEightyPercent ==
    FilterReturned =>
        /\ call_out = SelectSeq(call_args.regions,
                                LAMBDA r : ~MostlyInsideLarger(r, call_args.regions))
        /\ \A i \in 1..Len(call_args.regions) :
               IsLargest(call_args.regions[i], call_args.regions)
                   => \E k \in 1..Len(call_out) : call_out[k] = call_args.regions[i]

\* a call has returned in which one region was removed and another, exactly
\* 80 % of whose box lies inside the box of a strictly larger region, was kept
C26_Witness ==
    /\ FilterReturned
    /\ Len(call_out) < Len(call_args.regions)
    /\ \E k \in 1..Len(call_out) :
           /\ AtLeastInsideLarger(call_out[k], call_args.regions)
           /\ ~MostlyInsideLarger(call_out[k], call_args.regions)

\* C26 as stated: a region is removed exactly when at least 80 %, 80 %
\* included, of its bounding-box area lies inside the bounding box of some
\* strictly larger region
C26_RemovesFromEightyPercent ==
    FilterReturned =>
        call_out = SelectSeq(call_args.regions,
                             LAMBDA r : ~AtLeastInsideLarger(r, call_args.regions))

----------------------------------------------------------------------------
(* Specification SpecScan: generate_fill_stitches, one pass of its scan loop *)
(* at a time                                                                 *)

\* Stand-in for the largest finite float: a sum below -FloatMax is -inf, and
\* -inf plus anything finite is -inf.
FloatMax == 100

\* the float -inf
NegInf == <<-1, 0>>

\* y + line_spacing_px in floats
FloatAdd(y, d) ==
    IF y = NegInf THEN NegInf
    ELSE IF RLt(RAdd(y, d), RInt(-FloatMax)) THEN NegInf
    ELSE RAdd(y, d)

\* y <= max_y in floats, max_y finite
FloatLe(y, max_y) == y = NegInf \/ RLe(y, max_y)

\* contours: none, two points, and those of the fills
ScanContours ==
    { <<>>, << <<0, 0>>, <<50, 0>> >>, RectContour(10, 10, 60, 40),
      RectContour(40, 20, 60, 20), << <<0, 0>>, <<80, 0>>, <<40, 60>> >> }

\* densities in thousandths of stitches per mm: positive, zero and negative
ScanDensities == {5000, 2500, 0, -2500, -5000}

ScanCalls ==
    { [fn |-> "generate_fill_stitches", contour |-> c, angle |-> a, density |-> d,
       stitch_length |-> 2000, pixels_per_mm |-> GEN_PIXELS_PER_MM,
       center_offset |-> <<0, 0>>] :
        c \in ScanContours, a \in FillAngles, d \in ScanDensities }

InitScan ==
    /\ pc = "start"
    /\ outcome = "none"
    /\ regions = <<>>
    /\ quality_preset = "balanced"
    /\ density_multiplier = 1000
    /\ plan = NewPlan
    /\ validate_out = <<>>
    /\ hoop_size = "100x100"
    /\ image = NoImage
    /\ pre = NoResult
    /\ center_offset = <<0, 0>>
    /\ op_stitches = <<>>
    /\ pattern = <<>>
    /\ has_opencv = TRUE
    /\ use_grabcut = TRUE
    /\ seg = NoSeg
    /\ call_args \in ScanCalls
    /\ call_out = <<>>
    /\ scan = NoScan
    /\ cls_args = NoArgs
    /\ cls_out = ""
    /\ contour_in = <<>>
    /\ region_out = NoRegion
    /\ quantized = <<>>
    /\ min_area_mm2 = MIN_AREA_MM2
    /\ extracted = <<>>

\* "if not contour: return []" and "if len(points) < 3: return []"
ReturnEmpty ==
    /\ pc = "start"
    /\ call_args.contour = <<>> \/ Len(call_args.contour) < 3
    /\ call_out' = <<>>
    /\ pc' = "returned"
    /\ UNCHANGED <<call_args, scan>>
    /\ UNCHANGED restVars
    /\ UNCHANGED preVars
    /\ UNCHANGED genVars
    /\ UNCHANGED shapeVars

\* line_spacing_px = pixels_per_mm / density with density 0: ZeroDivisionError
RaiseZeroDivision ==
    /\ pc = "start"
    /\ call_args.contour # <<>> /\ Len(call_args.contour) >= 3
    /\ call_args.density = 0
    /\ pc' = "raised"
    /\ UNCHANGED callVars
    /\ UNCHANGED restVars
    /\ UNCHANGED preVars
    /\ UNCHANGED genVars
    /\ UNCHANGED shapeVars

\* from "line_spacing_px = pixels_per_mm / density" to
\* "y = min_y + line_spacing_px / 2"
EnterScan ==
    /\ pc = "start"
    /\ call_args.contour # <<>> /\ Len(call_args.contour) >= 3
    /\ call_args.density # 0
    /\ LET line_spacing_px == LineSpacingPx(call_args.pixels_per_mm, call_args.density)
           center == MeanPoint(ToPoints(call_args.contour))
           rotated == rotate_points(ToPoints(call_args.contour), center, -call_args.angle)
           ys == [i \in 1..Len(rotated) |-> rotated[i][2]]
       IN  scan' = [ center           |-> center,
                     rotated          |-> rotated,
                     y                |-> RAdd(RMinSeq(ys), RDiv(line_spacing_px, RInt(2))),
                     max_y            |-> RMaxSeq(ys),
                     line_spacing_px  |-> line_spacing_px,
                     direction        |-> 1,
                     stitches_rotated |-> <<>> ]
    /\ pc' = "scan"
    /\ UNCHANGED <<call_args, call_out>>
    /\ UNCHANGED restVars
    /\ UNCHANGED preVars
    /\ UNCHANGED genVars
    /\ UNCHANGED shapeVars

\* one pass of "while y <= max_y" (each local is bound to its value before it
\* is used)
ScanPass ==
    /\ pc = "scan"
    /\ FloatLe(scan.y, scan.max_y)
    /\ \E intersections \in
           {(IF scan.y = NegInf THEN <<>>
             ELSE find_scanline_intersections(scan.rotated, scan.y)) \o <<>>} :
       \E segment_stitches \in
           {(IF Len(intersections) >= 2
             THEN SpanStitches(RSort(intersections) \o <<>>, 0, scan.y,
                               Rat(call_args.stitch_length * call_args.pixels_per_mm, 1000),
                               scan.direction)
             ELSE <<>>) \o <<>>} :
           scan' = [scan EXCEPT !.y = FloatAdd(scan.y, scan.line_spacing_px),
                                !.direction = -scan.direction,
                                !.stitches_rotated = @ \o segment_stitches]
    /\ UNCHANGED pc
    /\ UNCHANGED <<call_args, call_out>>
    /\ UNCHANGED restVars
    /\ UNCHANGED preVars
    /\ UNCHANGED genVars
    /\ UNCHANGED shapeVars

\* the loop is left: rotate back, convert to embroidery units, return
ExitScan ==
    /\ pc = "scan"
    /\ ~FloatLe(scan.y, scan.max_y)
    /\ LET stitches_original ==
               rotate_points(scan.stitches_rotated, scan.center, call_args.angle)
       IN  call_out' = [i \in 1..Len(stitches_original) |->
                           ToUnits(stitches_original[i], call_args.pixels_per_mm,
                                   call_args.center_offset)]
    /\ pc' = "returned"
    /\ UNCHANGED <<call_args, scan>>
    /\ UNCHANGED restVars
    /\ UNCHANGED preVars
    /\ UNCHANGED genVars
    /\ UNCHANGED shapeVars

NextScan ==
    \/ ReturnEmpty
    \/ RaiseZeroDivision
    \/ EnterScan
    \/ ScanPass
    \/ ExitScan

SpecScan == InitScan /\ [][NextScan]_vars

\* the variables a step of generate_fill_stitches changes
scanVars == <<pc, scan>>

\* the interpreter runs the call on: a step that can be taken is taken
SpecScanLive == SpecScan /\ WF_scanVars(NextScan)

\* the stitches the loop returns pass by pass are those of the function
\* computed at once
ScanAgreesWithFill ==
    (pc = "returned" /\ call_args.density > 0) =>
        call_out = generate_fill_stitches(call_args.contour, call_args.angle,
                                          call_args.density, call_args.stitch_length,
                                          call_args.pixels_per_mm, call_args.center_offset)

\* C28 as stated: for every contour, angle and density, zero and negative
\* densities included, the call of generate_fill_stitches comes to an end: the
\* loop "while y <= max_y" is left (here an error raised before the loop
\* counts as an end too)
C28_FillTerminates == <>(pc = "returned" \/ pc = "raised")

----------------------------------------------------------------------------
(* Specification SpecEdit: a plan edited through add_layer and add_operation, *)
(* also on layers that are in the plan already, and finalized twice          *)

MaxEditLayers == 3

MaxEditOps == 2

\* the fill operation of a hand-made region of area a at the default density
SyntheticOp(a) ==
    create_fill_operation(Region("#808080", "fill", a, 0, 0, <<>>),
                          PP1_DEFAULTS.fill_density)

\* layer = StitchLayer(...); layer.add_operation(op) for some operations;
\* plan.add_layer(layer)
AddPlanLayer ==
    /\ pc = "build"
    /\ Len(plan.layers) < MaxEditLayers
    /\ \E areas \in SeqsUpTo(SyntheticAreas, MaxEditOps) :
          plan' = add_layer(plan,
                            add_operations(NewLayer("#808080"),
                                           [k \in 1..Len(areas) |-> SyntheticOp(areas[k])]))
    /\ UNCHANGED <<pc, outcome, regions, quality_preset, density_multiplier,
                   validate_out>>
    /\ UNCHANGED callVars
    /\ UNCHANGED preVars
    /\ UNCHANGED genVars
    /\ UNCHANGED shapeVars

\* layer.add_operation(op) on a layer that is in the plan: plan.layers holds
\* the layer object itself, so the layer in the plan changes and nothing else
\* of the plan does
AddOperationInPlan ==
    /\ pc = "build"
    /\ \E i \in 1..Len(plan.layers), a \in SyntheticAreas :
          /\ Len(plan.layers[i].operations) < MaxEditOps
          /\ plan' = [plan EXCEPT !.layers[i] = add_operation(@, SyntheticOp(a))]
    /\ UNCHANGED <<pc, outcome, regions, quality_preset, density_multiplier,
                   validate_out>>
    /\ UNCHANGED callVars
    /\ UNCHANGED preVars
    /\ UNCHANGED genVars
    /\ UNCHANGED shapeVars

\* plan.finalize() a second time
FinalizeAgain ==
    /\ pc = "finalized"
    /\ plan' = finalize(plan)
    /\ pc' = "refinalized"
    /\ UNCHANGED callVars
    /\ UNCHANGED <<outcome, regions, quality_preset, density_multiplier,
                   validate_out>>
    /\ UNCHANGED preVars
    /\ UNCHANGED genVars
    /\ UNCHANGED shapeVars

NextEdit == AddPlanLayer \/ AddOperationInPlan \/ Finalize \/ FinalizeAgain

SpecEdit == InitBuild /\ [][NextEdit]_vars

\* C29 as stated: a second call of finalize leaves total_stitches,
\* estimated_time_minutes and warnings exactly as the first call left them
C29_FinalizeIdempotent ==
    [][(pc = "finalized" /\ pc' = "refinalized") =>
          /\ plan'.total_stitches = plan.total_stitches
          /\ plan'.estimated_time = plan.estimated_time
          /\ plan'.warnings = plan.warnings]_vars

\* C30 as stated: after any sequence of add_operation and add_layer calls,
\* and before any finalize, plan.total_stitches is the sum of the layers'
\* estimated_stitches
C30_TotalFollowsEdits ==
    pc = "build" => plan.total_stitches = SumSeq(EstimatesOf(plan.layers))

====
